---- MODULE Spec2Model ----
(***************************************************************************)
(* inkdrop: the note collection of NoteApp (src/src/app.js), its           *)
(* validation predicate, its localStorage round trip and the handlers that *)
(* mutate it.                                                              *)
(*                                                                         *)
(* JavaScript values are tagged records [t, s, n]: t is the kind, s the    *)
(* text of a string, n the number, the boolean (0/1) or the epoch time of  *)
(* a Date.  A string is a sequence of runs [c, n] (the character c         *)
(* repeated n times), so that a text of 50001 characters is one run.       *)
(***************************************************************************)
EXTENDS Integers, Sequences, FiniteSets, TLC

VARIABLES
    notes,          \* this.notes: the in-memory collection
    storage,        \* the raw value of the localStorage key 'notes'
    currentId,      \* this.currentId (Null or a string value)
    titleField,     \* $('#title').value
    contentField,   \* $('#content').value
    saveTimeout,    \* TRUE while the auto-save timer is pending
    selectionMode,  \* this.selectionMode
    selectedNotes,  \* this.selectedNotes
    view,           \* "list" or "editor": the active pane
    clock,          \* Date.now()
    notifications,  \* the messages showNotification displayed in the last handler
    calls,          \* the localStorage calls of the store() under test, in order
    lastOp,         \* the step the function under test has reached
    writer,         \* who stored the key's value: "app" (this.store) or "other"
    arg,            \* the argument of the function under test
    result,         \* what the function under test returned
    draftId,        \* the id under study: newNote's draft, or a record a peer deleted (Null: none)
    peerNotes,      \* this.notes of a second tab on the same storage
    timers,         \* the browser's pending timers and the fields holding their ids
    trace           \* the last input events and whether beforeunload was fired

vars == <<notes, storage, currentId, titleField, contentField, saveTimeout,
          selectionMode, selectedNotes, view, clock, notifications, calls,
          lastOp, writer, arg, result, draftId, peerNotes, timers, trace>>

appVars == <<notes, storage, currentId, titleField, contentField, saveTimeout,
             selectionMode, selectedNotes, view, clock, notifications, calls,
             lastOp, writer, draftId, peerNotes, timers, trace>>

---------------------------------------------------------------------------
(* Program constants and bounds *)

maxNoteLength == 50000

maxTitleLength == 1000

\* longest collection the model builds
MaxNotes == 2

\* last instant of the modelled clock
MaxClock == 1

\* longest array of a stored text under test
MaxStored == 2

---------------------------------------------------------------------------
(* Strings *)

Run(c, n) == IF n = 0 THEN <<>> ELSE <<[c |-> c, n |-> n]>>

RECURSIVE StrLen(_)
StrLen(s) == IF s = <<>> THEN 0 ELSE Head(s).n + StrLen(Tail(s))

IsSpace(c) == c \in {" ", "\n"}

RECURSIVE trimStart(_)
trimStart(s) ==
    IF s = <<>> THEN <<>>
    ELSE IF IsSpace(Head(s).c) THEN trimStart(Tail(s)) ELSE s

RECURSIVE trimEnd(_)
trimEnd(s) ==
    IF s = <<>> THEN <<>>
    ELSE IF IsSpace(s[Len(s)].c) THEN trimEnd(SubSeq(s, 1, Len(s) - 1)) ELSE s

trim(s) == trimEnd(trimStart(s))

\* s.substring(0, k)
RECURSIVE substring0(_, _)
substring0(s, k) ==
    IF s = <<>> \/ k <= 0 THEN <<>>
    ELSE IF Head(s).n >= k THEN Run(Head(s).c, k)
    ELSE <<Head(s)>> \o substring0(Tail(s), k - Head(s).n)

Digits == <<"0", "1", "2", "3", "4", "5", "6", "7", "8", "9">>

\* Number.prototype.toString of an instant below 10
toString(ms) == Run(Digits[ms + 1], 1)

\* Date.prototype.toISOString: 24 characters; the fixed-format part is one run
toISOString(ms) == Run("T", 23) \o Run(Digits[ms + 1], 1)

---------------------------------------------------------------------------
(* JavaScript values *)

Undefined == [t |-> "undefined", s |-> <<>>, n |-> 0]

Null == [t |-> "null", s |-> <<>>, n |-> 0]

Bool(b) == [t |-> "boolean", s |-> <<>>, n |-> IF b THEN 1 ELSE 0]

Num(k) == [t |-> "number", s |-> <<>>, n |-> k]

Str(s) == [t |-> "string", s |-> s, n |-> 0]

\* a nested plain object or array held in a field
Nested == [t |-> "object", s |-> <<>>, n |-> 0]

\* a Date object (only in memory: JSON has no dates)
DateOf(ms) == [t |-> "date", s |-> <<>>, n |-> ms]

typeof(v) ==
    CASE v.t = "undefined" -> "undefined"
      [] v.t = "boolean" -> "boolean"
      [] v.t = "number" -> "number"
      [] v.t = "string" -> "string"
      [] OTHER -> "object"

\* ToBoolean
Truthy(v) ==
    CASE v.t = "undefined" -> FALSE
      [] v.t = "null" -> FALSE
      [] v.t = "boolean" -> v.n = 1
      [] v.t = "number" -> v.n # 0
      [] v.t = "string" -> v.s # <<>>
      [] OTHER -> TRUE

\* what a JSON array element or a validateNote argument can be: the value
\* itself and, for an object, its five note fields (Undefined = absent)
Cand(v, ti, co, id, cr, up) ==
    [v |-> v, title |-> ti, content |-> co, id |-> id, created |-> cr, updated |-> up]

Prim(v) == Cand(v, Undefined, Undefined, Undefined, Undefined, Undefined)

Object(ti, co, id, cr, up) == Cand(Nested, ti, co, id, cr, up)

\* the timers after construction: saveTimeout and searchTimeout are null
\* (0) and setupSync has started the one interval
TimersAtStart ==
    [pending |-> {[id |-> 1, kind |-> "sync", query |-> <<>>]}, next |-> 2,
     saveTimeout |-> 0, searchTimeout |-> 0, syncInterval |-> 1]

NoTrace ==
    [unloaded |-> FALSE, lastQuery |-> <<>>,
     lastInput |-> [id |-> Null, title |-> <<>>, content |-> <<>>]]

---------------------------------------------------------------------------
(* NoteApp.validateNote *)

\* validateNote with the content limit compared against the title's length
validateNote_ContentLimitOnTitle(note) ==
    IF ~Truthy(note.v) \/ typeof(note.v) # "object" THEN FALSE
    ELSE IF Truthy(note.title)
       /\ (typeof(note.title) # "string" \/ StrLen(note.title.s) > maxTitleLength)
    THEN FALSE
    ELSE IF Truthy(note.content)
       /\ (typeof(note.content) # "string" \/ StrLen(note.title.s) > maxNoteLength)
    THEN FALSE
    ELSE IF Truthy(note.id) /\ typeof(note.id) # "string" THEN FALSE
    ELSE TRUE

validateNote(note) ==
    IF ~Truthy(note.v) \/ typeof(note.v) # "object" THEN FALSE
    ELSE IF Truthy(note.title)
       /\ (typeof(note.title) # "string" \/ StrLen(note.title.s) > maxTitleLength)
    THEN FALSE
    ELSE IF Truthy(note.content)
       /\ (typeof(note.content) # "string" \/ StrLen(note.content.s) > maxNoteLength)
    THEN FALSE
    ELSE IF Truthy(note.id) /\ typeof(note.id) # "string" THEN FALSE
    ELSE TRUE

---------------------------------------------------------------------------
(* JSON text and the localStorage key 'notes' *)

\* The value of the key is a text, modelled by what JSON.parse makes of it:
\*   absent   - the key is not set (getItem returns null)
\*   empty    - the empty text
\*   garbage  - a text JSON.parse rejects
\*   nonarray - a text that parses to something that is no array
\*   array    - a text that parses to the array arr
\* The order of the keys inside an object is not modelled.
Absent == [k |-> "absent", arr |-> <<>>]

EmptyText == [k |-> "empty", arr |-> <<>>]

Garbage == [k |-> "garbage", arr |-> <<>>]

NonArray == [k |-> "nonarray", arr |-> <<>>]

ArrayText(arr) == [k |-> "array", arr |-> arr]

\* JSON.stringify of one field: a Date becomes its ISO text
fieldToJSON(v) == IF v.t = "date" THEN Str(toISOString(v.n)) ELSE v

\* JSON.stringify of one element of this.notes
toJSON(c) ==
    [v |-> c.v,
     title |-> fieldToJSON(c.title),
     content |-> fieldToJSON(c.content),
     id |-> fieldToJSON(c.id),
     created |-> fieldToJSON(c.created),
     updated |-> fieldToJSON(c.updated)]

\* JSON.stringify(this.notes)
JSONstringify(ns) == ArrayText([i \in DOMAIN ns |-> toJSON(ns[i])])

\* JSON.parse throws a SyntaxError on these texts
ParseThrows(raw) == raw.k \in {"empty", "garbage"}

\* Array.prototype.filter
filter(seq, keep(_)) == SelectSeq(seq, keep)

LoadFailedMsg == "Failed to load notes. Starting fresh."

\* loadNotes with the Array.isArray test inverted
loadNotesResult_InvertedArrayTest(raw) ==
    IF raw.k \in {"absent", "empty"} THEN [value |-> <<>>, shown |-> {}]
    ELSE IF ParseThrows(raw) THEN [value |-> <<>>, shown |-> {LoadFailedMsg}]
    ELSE IF raw.k = "array" THEN [value |-> <<>>, shown |-> {}]
    ELSE [value |-> filter(raw.arr, validateNote), shown |-> {}]

\* loadNotes without the filter
loadNotesResult_NoFilter(raw) ==
    IF raw.k \in {"absent", "empty"} THEN [value |-> <<>>, shown |-> {}]
    ELSE IF ParseThrows(raw) THEN [value |-> <<>>, shown |-> {LoadFailedMsg}]
    ELSE IF raw.k # "array" THEN [value |-> <<>>, shown |-> {}]
    ELSE [value |-> raw.arr, shown |-> {}]

\* NoteApp.loadNotes: the collection it returns and the notifications it shows
loadNotesResult(raw) ==
    IF raw.k \in {"absent", "empty"} THEN [value |-> <<>>, shown |-> {}]
    ELSE IF ParseThrows(raw) THEN [value |-> <<>>, shown |-> {LoadFailedMsg}]
    ELSE IF raw.k # "array" THEN [value |-> <<>>, shown |-> {}]
    ELSE [value |-> filter(raw.arr, validateNote), shown |-> {}]

loadNotes(raw) == loadNotesResult(raw).value

---------------------------------------------------------------------------
(* NoteApp.store *)

\* What localStorage does with one call of store(): every setItem stores the
\* text ("ok"), throws ("throw", e.g. QuotaExceededError) or returns without
\* the text being what a later getItem reads ("drop": the key keeps its
\* value); removeItem removes the key or throws.
SetOutcomes == {"ok", "throw", "drop"}

RemoveOutcomes == {"ok", "throw"}

\* (a call that is not reached is listed as "ok")
Faults ==
    {f \in [w1 : SetOutcomes, rm : RemoveOutcomes, w2 : SetOutcomes] :
        /\ f.w1 = "ok" => (f.rm = "ok" /\ f.w2 = "ok")
        /\ f.rm = "throw" => f.w2 = "ok"}

NoFault == [w1 |-> "ok", rm |-> "ok", w2 |-> "ok"]

SaveFailedMsg == "Failed to save changes. Storage may be full."

CriticalMsg == "Critical: Unable to save data. Please export your notes."

setItem(raw, data, outcome) == IF outcome = "ok" THEN data ELSE raw

\* the repair cycle with the key removed after the rewrite
storeRetry_RemoveAfterWrite(ns, raw, f) ==
    IF f.w2 = "throw"
    THEN [storage |-> raw, shown |-> {SaveFailedMsg, CriticalMsg},
          calls |-> <<"setItem">>, touched |-> FALSE]
    ELSE [storage |-> IF f.rm = "ok" THEN Absent ELSE setItem(raw, JSONstringify(ns), f.w2),
          shown |-> {SaveFailedMsg} \cup (IF f.rm = "throw" THEN {CriticalMsg} ELSE {}),
          calls |-> <<"setItem", "removeItem">>, touched |-> TRUE]

\* the repair cycle writing once more when its own write throws
storeRetry_WritesAgain(ns, raw, f) ==
    IF f.rm = "throw"
    THEN [storage |-> raw, shown |-> {SaveFailedMsg, CriticalMsg},
          calls |-> <<"removeItem">>, touched |-> FALSE]
    ELSE IF f.w2 = "throw"
    THEN [storage |-> JSONstringify(ns), shown |-> {SaveFailedMsg},
          calls |-> <<"removeItem", "setItem", "setItem">>, touched |-> TRUE]
    ELSE [storage |-> setItem(Absent, JSONstringify(ns), f.w2),
          shown |-> {SaveFailedMsg},
          calls |-> <<"removeItem", "setItem">>, touched |-> TRUE]

\* the repair cycle of store(): removeItem, then setItem, in one try block.
\* touched: the call changed who the key's value comes from.
storeRetry(ns, raw, f) ==
    IF f.rm = "throw"
    THEN [storage |-> raw, shown |-> {SaveFailedMsg, CriticalMsg},
          calls |-> <<"removeItem">>, touched |-> FALSE]
    ELSE [storage |-> setItem(Absent, JSONstringify(ns), f.w2),
          shown |-> {SaveFailedMsg} \cup (IF f.w2 = "throw" THEN {CriticalMsg} ELSE {}),
          calls |-> <<"removeItem", "setItem">>, touched |-> TRUE]

\* NoteApp.store under the storage behaviour f: the value the key ends with,
\* the notifications shown and the localStorage calls made
storeResult(ns, raw, f) ==
    LET data == JSONstringify(ns)
        st1 == setItem(raw, data, f.w1)
        retry1 == storeRetry(ns, raw, f)
        retry2 == storeRetry(ns, st1, f)
    IN  IF f.w1 = "throw"
        THEN [retry1 EXCEPT !.calls = <<"setItem">> \o @]
        ELSE IF st1.k \in {"absent", "empty"} \/ st1 # data
        THEN [retry2 EXCEPT !.calls = <<"setItem", "getItem">> \o @]
        ELSE [storage |-> st1, shown |-> {}, calls |-> <<"setItem", "getItem">>,
              touched |-> f.w1 = "ok"]

---------------------------------------------------------------------------
(* Inputs of the functions under test *)

SeqsUpTo(S, n) == UNION {[1..k -> S] : k \in 0..n}

\* the application at rest, for the specifications that exercise one function
AppAtRest ==
    /\ currentId = Null
    /\ titleField = <<>>
    /\ contentField = <<>>
    /\ saveTimeout = FALSE
    /\ selectionMode = FALSE
    /\ selectedNotes = {}
    /\ view = "list"
    /\ clock = 0
    /\ notifications = {}
    /\ calls = <<>>
    /\ lastOp = "init"
    /\ writer = "other"
    /\ draftId = Null
    /\ timers = TimersAtStart
    /\ trace = NoTrace
    /\ peerNotes = <<>>

NotCalled == [done |-> FALSE, value |-> <<>>, shown |-> {}]

Returned(v, shown) == [done |-> TRUE, value |-> v, shown |-> shown]

TitleSamples ==
    {Undefined, Null, Num(0), Num(12345), Bool(FALSE), Bool(TRUE), Nested,
     Str(<<>>), Str(Run("A", 1)), Str(Run("a", maxTitleLength)),
     Str(Run("a", maxTitleLength + 1))}

ContentSamples ==
    {Undefined, Null, Num(0), Num(7), Bool(FALSE), Nested,
     Str(<<>>), Str(Run("x", 1)), Str(Run("x", maxNoteLength)),
     Str(Run("x", maxNoteLength + 1))}

IdSamples ==
    {Undefined, Null, Num(0), Num(1), Bool(FALSE), Nested, Str(<<>>), Str(Run("1", 1))}

ValidateArgs ==
    {Object(ti, co, id, Undefined, Undefined) :
        ti \in TitleSamples, co \in ContentSamples, id \in IdSamples}
    \cup {Prim(v) : v \in {Undefined, Null, Num(0), Num(5), Bool(TRUE), Bool(FALSE),
                           Str(<<>>), Str(Run("x", 1))}}

\* the stored record {id:"1", title:"A", content:"x"} and the entry {title: 12345}
RecordOne == Object(Str(Run("A", 1)), Str(Run("x", 1)), Str(Run("1", 1)), Undefined, Undefined)

Malformed == Object(Num(12345), Undefined, Undefined, Undefined, Undefined)

StoredElements ==
    {RecordOne, Malformed,
     Prim(Null), Prim(Num(5)),
     Object(Undefined, Undefined, Undefined, Undefined, Undefined),
     Object(Num(0), Str(Run("x", 1)), Str(Run("2", 1)), Undefined, Undefined),
     Object(Str(Run("a", maxTitleLength + 1)), Str(<<>>), Str(Run("2", 1)), Undefined, Undefined),
     Object(Str(Run("B", 1)), Str(Run("y", 1)), Num(1), Undefined, Undefined)}

StoredTexts ==
    {Absent, EmptyText, Garbage, NonArray}
    \cup {ArrayText(a) : a \in SeqsUpTo(StoredElements, MaxStored)}

\* records of an in-memory collection: built by saveNote (Date stamps) or
\* parsed from a text (ISO stamps), with or without title and id
MemSamples ==
    {Object(ti, Str(Run("x", 1)), id, st[1], st[2]) :
        ti \in {Undefined, Num(0), Str(Run("A", 1))},
        id \in {Undefined, Str(Run("1", 1))},
        st \in {<<DateOf(0), DateOf(1)>>,
                <<Str(toISOString(0)), Str(toISOString(1))>>}}

MemRecords == {c \in MemSamples : validateNote(c)}

---------------------------------------------------------------------------
(* SpecValidate: validateNote applied to every sampled candidate *)

InitValidate ==
    /\ AppAtRest
    /\ notes = <<>>
    /\ storage = Absent
    /\ arg \in ValidateArgs
    /\ result = NotCalled

CallValidate ==
    /\ ~result.done
    /\ result' = Returned(validateNote(arg), {})
    /\ UNCHANGED <<appVars, arg>>

NextValidate == CallValidate

SpecValidate == InitValidate /\ [][NextValidate]_vars

---------------------------------------------------------------------------
(* SpecLoad: loadNotes applied to every sampled text of the key *)

InitLoad ==
    /\ AppAtRest
    /\ notes = <<>>
    /\ storage \in StoredTexts
    /\ arg = NoFault
    /\ result = NotCalled

CallLoad ==
    /\ ~result.done
    /\ result' = Returned(loadNotes(storage), loadNotesResult(storage).shown)
    /\ UNCHANGED <<appVars, arg>>

NextLoad == CallLoad

SpecLoad == InitLoad /\ [][NextLoad]_vars

---------------------------------------------------------------------------
(* SpecPersist: store() under every storage behaviour, then loadNotes() *)

InitPersist ==
    /\ AppAtRest
    /\ notes \in SeqsUpTo(MemRecords, MaxNotes)
    /\ storage \in {Absent, Garbage, ArrayText(<<RecordOne>>)}
    /\ arg = NoFault
    /\ result = NotCalled

CallStore ==
    /\ lastOp = "init"
    /\ \E f \in Faults :
        LET r == storeResult(notes, storage, f)
        IN  /\ storage' = r.storage
            /\ notifications' = r.shown
            /\ calls' = r.calls
            /\ writer' = IF r.touched THEN "app" ELSE writer
            /\ arg' = f
    /\ lastOp' = "store"
    /\ UNCHANGED <<notes, currentId, titleField, contentField, saveTimeout,
                   selectionMode, selectedNotes, view, clock, result, draftId,
                   peerNotes, timers, trace>>

CallLoadAfterStore ==
    /\ lastOp = "store"
    /\ result' = Returned(loadNotes(storage), loadNotesResult(storage).shown)
    /\ lastOp' = "store+loadNotes"
    /\ UNCHANGED <<notes, storage, currentId, titleField, contentField, saveTimeout,
                   selectionMode, selectedNotes, view, clock, notifications,
                   calls, writer, arg, draftId, peerNotes, timers, trace>>

NextPersist == CallStore \/ CallLoadAfterStore

SpecPersist == InitPersist /\ [][NextPersist]_vars

---------------------------------------------------------------------------
(* Claims about store() and loadNotes() *)

\* two collections are equal record by record once serialized
SameSerialized(a, b) ==
    /\ Len(a) = Len(b)
    /\ \A i \in DOMAIN a : toJSON(a[i]) = toJSON(b[i])

\* the text reached the key: the first setItem stored it, or the rewrite did
StoreWrote(f) == f.w1 = "ok" \/ (f.rm = "ok" /\ f.w2 = "ok")

FirstAttemptFailed == SaveFailedMsg \in notifications

\* C1: store() followed by loadNotes(), the write having succeeded, returns a
\* collection equal to the stored one, record by record and in the same
\* order, stamps compared in their serialized form.
C1_RoundTrip ==
    (lastOp = "store+loadNotes" /\ StoreWrote(arg)) => SameSerialized(result.value, notes)

C1_Witness ==
    /\ lastOp = "store+loadNotes"
    /\ arg.w1 = "ok"
    /\ Len(notes) = MaxNotes
    /\ notes[1].updated.t = "date"
    /\ notes[1].title = Num(0)
    /\ Len(result.value) = MaxNotes
    /\ result.value[1].updated.t = "string"

\* C2: whenever store() ends without the critical notification, the last
\* call it made on the key is a verification read, and the key holds the
\* serialized collection.
C2_VerifiedBeforeComplete ==
    (lastOp = "store" /\ CriticalMsg \notin notifications)
        => (calls[Len(calls)] = "getItem" /\ storage = JSONstringify(notes))

C4_TerminalSurfaced ==
    (lastOp = "store" /\ FirstAttemptFailed /\ (arg.rm = "throw" \/ arg.w2 # "ok"))
        => CriticalMsg \in notifications

\* the valid positions of a stored array, and the result as the array
\* restricted to them in order
ValidAt(arr) == {i \in DOMAIN arr : validateNote(arr[i])}

KeepsExactlyValid(value, arr) ==
    /\ Len(value) = Cardinality(ValidAt(arr))
    /\ \E f \in [DOMAIN value -> DOMAIN arr] :
        /\ \A k \in DOMAIN value : f[k] \in ValidAt(arr) /\ value[k] = arr[f[k]]
        /\ \A j, k \in DOMAIN value : j < k => f[j] < f[k]

\* C5: loadNotes() returns the empty sequence for an absent key, a text that
\* does not parse and a text that is no array; otherwise exactly the valid
\* elements of the array in their order; [RecordOne, {title: 12345}] loads
\* as [RecordOne].
C5_LoadFilters ==
    result.done =>
        /\ storage.k # "array" => result.value = <<>>
        /\ storage.k = "array" => KeepsExactlyValid(result.value, storage.arr)
        /\ storage = ArrayText(<<RecordOne, Malformed>>) => result.value = <<RecordOne>>

C5_Witness ==
    /\ result.done
    /\ storage = ArrayText(<<RecordOne, Malformed>>)
    /\ result.value = <<RecordOne>>

---------------------------------------------------------------------------
(* Claims about validateNote *)

IsObject(c) == c.v.t = "object"

LongerThan(v, limit) == v.t = "string" /\ StrLen(v.s) > limit

Present(v) == v # Undefined

C7_RejectsNonStrings ==
    (result.done
        /\ (~IsObject(arg)
            \/ (Present(arg.title) /\ arg.title.t # "string")
            \/ (Present(arg.content) /\ arg.content.t # "string")
            \/ (Present(arg.id) /\ arg.id.t # "string")))
        => result.value = FALSE

---------------------------------------------------------------------------
(* The application: state after construction and one action per handler *)

\* a text written character by character (no two equal neighbours)
Text(chars) == [i \in DOMAIN chars |-> [c |-> chars[i], n |-> 1]]

Untitled == Text(<<"u", "n", "t", "i", "t", "l", "e", "d">>)

InvalidMsg == "Invalid note data. Please check your input."

ImportFormatMsg == "Invalid file format. Please select a valid inkdrop export file."

\* `Imported ${validNotes.length} notes successfully!`
ImportedMsg(n) == "Imported " \o ToString(n) \o " notes successfully!"

DeletedMsg(count) == "Deleted " \o ToString(count) \o (IF count > 1 THEN " notes!" ELSE " note!")

NoSelectionMsg == "No notes selected!"

TitleLimitMsg == "Title limited to 1000 characters"

NoteLimitMsg == "Note limited to 50000 characters"

\* what the user types into a field
TitleInputs == {Run(" ", 1), Run("A", 1)}

ContentInputs == {<<>>, Run("x", 1)}

\* texts of the key found at start-up
InitialTexts == {Absent, Garbage, NonArray, ArrayText(<<RecordOne, Malformed>>)}

\* texts another tab or script stores under the key
OtherTexts == {Garbage, ArrayText(<<RecordOne>>)}

\* import files: a text that does not parse, an object without a notes
\* array, and backups
ImportFiles ==
    {[k |-> "garbage", arr |-> <<>>],
     [k |-> "nonotes", arr |-> <<>>],
     [k |-> "backup", arr |-> <<RecordOne, Malformed>>]}

\* Array.prototype.findIndex(n => n.id === id): 0 when there is none
findIndex(ns, id) ==
    IF \E i \in DOMAIN ns : ns[i].id = id
    THEN CHOOSE i \in DOMAIN ns : ns[i].id = id /\ \A j \in 1..(i - 1) : ns[j].id # id
    ELSE 0

\* x || fallback for a title or content shown in the editor
OrEmpty(v) == IF Truthy(v) THEN v.s ELSE <<>>

\* this.store() inside a handler that shows the notifications `shown` itself
Store(ns, f, shown) ==
    LET r == storeResult(ns, storage, f)
    IN  /\ storage' = r.storage
        /\ notifications' = shown \cup r.shown
        /\ writer' = IF r.touched THEN "app" ELSE writer

NoStore(shown) ==
    /\ notifications' = shown
    /\ UNCHANGED <<storage, writer>>

\* the state the constructor leaves: loadNotes(), then handlePWAShortcuts
\* with no action or with action=new
Init ==
    /\ storage \in InitialTexts
    /\ writer = "other"
    /\ notes = loadNotes(storage)
    /\ notifications = loadNotesResult(storage).shown
    /\ calls = <<>>
    /\ clock = 0
    /\ saveTimeout = FALSE
    /\ selectionMode = FALSE
    /\ selectedNotes = {}
    /\ lastOp = "init"
    /\ arg = NoFault
    /\ result = NotCalled
    /\ draftId = Null
    /\ timers = TimersAtStart
    /\ trace = NoTrace
    /\ peerNotes = <<>>
    /\ \/ /\ currentId = Null
          /\ view = "list"
          /\ titleField = <<>>
          /\ contentField = <<>>
       \/ /\ currentId = Str(toString(clock))
          /\ view = "editor"
          /\ titleField = <<>>
          /\ contentField = <<>>

\* time passes
Tick ==
    /\ clock < MaxClock
    /\ clock' = clock + 1
    /\ UNCHANGED <<notes, storage, currentId, titleField, contentField, saveTimeout,
                   selectionMode, selectedNotes, view, notifications, writer,
                   calls, arg, result>>

\* newNote putting the draft at the head of the collection
newNote_InsertsDraft ==
    /\ currentId' = Str(toString(clock))
    /\ view' = "editor"
    /\ titleField' = <<>>
    /\ contentField' = <<>>
    /\ NoStore({})
    /\ notes' = <<Object(Str(<<>>), Str(<<>>), Str(toString(clock)), DateOf(clock),
                         DateOf(clock))>> \o notes
    /\ UNCHANGED <<saveTimeout, selectionMode, selectedNotes, clock, calls, arg, result>>

\* newNote leaving in the editor what the previous note showed
newNote_KeepsFields ==
    /\ currentId' = Str(toString(clock))
    /\ view' = "editor"
    /\ NoStore({})
    /\ UNCHANGED <<notes, titleField, contentField, saveTimeout, selectionMode,
                   selectedNotes, clock, calls, arg, result>>

\* NoteApp.newNote (#new, Ctrl+N)
newNote ==
    /\ currentId' = Str(toString(clock))
    /\ view' = "editor"
    /\ titleField' = <<>>
    /\ contentField' = <<>>
    /\ NoStore({})
    /\ UNCHANGED <<notes, saveTimeout, selectionMode, selectedNotes, clock, calls, arg, result>>

\* NoteApp.showList (#back, Escape)
showList ==
    /\ view' = "list"
    /\ currentId' = Null
    /\ NoStore({})
    /\ UNCHANGED <<notes, titleField, contentField, saveTimeout, selectionMode,
                   selectedNotes, clock, calls, arg, result>>

\* the click handler renderNotes puts on a note of the list: data-id is the
\* id as text, and only a record whose id is that very string is opened
openNote(i) ==
    /\ view = "list"
    /\ ~selectionMode
    /\ i \in DOMAIN notes
    /\ notes[i].id.t = "string"
    /\ LET note == notes[findIndex(notes, notes[i].id)]
       IN  /\ currentId' = note.id
           /\ titleField' = OrEmpty(note.title)
           /\ contentField' = OrEmpty(note.content)
    /\ view' = "editor"
    /\ NoStore({})
    /\ UNCHANGED <<notes, saveTimeout, selectionMode, selectedNotes, clock, calls, arg, result>>

\* NoteApp.handleInput after the user changed the title or the content:
\* both fields are cut to their limits and the auto-save timer is restarted
handleInput(field, text) ==
    /\ view = "editor"
    /\ LET title == IF field = "title" THEN text ELSE titleField
           content == IF field = "content" THEN text ELSE contentField
       IN  /\ titleField' = substring0(title, maxTitleLength)
           /\ contentField' = substring0(content, maxNoteLength)
           /\ NoStore((IF StrLen(title) > maxTitleLength THEN {TitleLimitMsg} ELSE {})
                      \cup (IF StrLen(content) > maxNoteLength THEN {NoteLimitMsg} ELSE {}))
    /\ saveTimeout' = TRUE
    /\ UNCHANGED <<notes, currentId, selectionMode, selectedNotes, view, clock, calls, arg, result>>
\* noteData with the title as trimmed, empty or not
noteData_NoDefault(title, content) ==
    Object(Str(title), Str(content), currentId, Undefined, DateOf(clock))

\* the record saveNote builds from the editor, before created is set
noteData(title, content) ==
    Object(Str(IF title # <<>> THEN title ELSE Untitled), Str(content), currentId,
           Undefined, DateOf(clock))

\* saveNote replacing the record by the new data, created reset to now
merged_CreatedReset(existing, data) == [data EXCEPT !.created = data.updated]

\* { ...existing, ...noteData }
merged(existing, data) ==
    [existing EXCEPT !.id = data.id, !.title = data.title, !.content = data.content,
                     !.updated = data.updated]

\* saveNote comparing the raw fields, not the trimmed ones, with empty
saveNoteBody_NoTrim(showFeedback, f) ==
    LET title == trim(titleField)
        content == trim(contentField)
        data == noteData(title, content)
        existing == findIndex(notes, currentId)
    IN  IF currentId = Null
        THEN NoStore({}) /\ UNCHANGED <<notes, currentId, view>>
        ELSE IF titleField = <<>> /\ contentField = <<>>
        THEN /\ NoStore({})
             /\ UNCHANGED notes
             /\ IF showFeedback
                THEN view' = "list" /\ currentId' = Null
                ELSE UNCHANGED <<currentId, view>>
        ELSE IF ~validateNote(data)
        THEN NoStore({InvalidMsg}) /\ UNCHANGED <<notes, currentId, view>>
        ELSE /\ existing = 0 => Len(notes) < MaxNotes
             /\ notes' = IF existing > 0
                         THEN [notes EXCEPT ![existing] = merged(@, data)]
                         ELSE <<[data EXCEPT !.created = DateOf(clock)]>> \o notes
             /\ Store(notes', f, {})
             /\ UNCHANGED <<currentId, view>>

\* saveNote putting a new record at the tail of the collection
saveNoteBody_Push(showFeedback, f) ==
    LET title == trim(titleField)
        content == trim(contentField)
        data == noteData(title, content)
        existing == findIndex(notes, currentId)
    IN  IF currentId = Null
        THEN NoStore({}) /\ UNCHANGED <<notes, currentId, view>>
        ELSE IF title = <<>> /\ content = <<>>
        THEN /\ NoStore({})
             /\ UNCHANGED notes
             /\ IF showFeedback
                THEN view' = "list" /\ currentId' = Null
                ELSE UNCHANGED <<currentId, view>>
        ELSE IF ~validateNote(data)
        THEN NoStore({InvalidMsg}) /\ UNCHANGED <<notes, currentId, view>>
        ELSE /\ existing = 0 => Len(notes) < MaxNotes
             /\ notes' = IF existing > 0
                         THEN [notes EXCEPT ![existing] = merged(@, data)]
                         ELSE notes \o <<[data EXCEPT !.created = DateOf(clock)]>>
             /\ Store(notes', f, {})
             /\ UNCHANGED <<currentId, view>>

\* saveNote without the validateNote test
saveNoteBody_NoValidation(showFeedback, f) ==
    LET title == trim(titleField)
        content == trim(contentField)
        data == noteData(title, content)
        existing == findIndex(notes, currentId)
    IN  IF currentId = Null
        THEN NoStore({}) /\ UNCHANGED <<notes, currentId, view>>
        ELSE IF title = <<>> /\ content = <<>>
        THEN /\ NoStore({})
             /\ UNCHANGED notes
             /\ IF showFeedback
                THEN view' = "list" /\ currentId' = Null
                ELSE UNCHANGED <<currentId, view>>
        ELSE /\ existing = 0 => Len(notes) < MaxNotes
             /\ notes' = IF existing > 0
                         THEN [notes EXCEPT ![existing] = merged(@, data)]
                         ELSE <<[data EXCEPT !.created = DateOf(clock)]>> \o notes
             /\ Store(notes', f, {})
             /\ UNCHANGED <<currentId, view>>

\* NoteApp.saveNote(showFeedback) under the storage behaviour f
saveNoteBody(showFeedback, f) ==
    LET title == trim(titleField)
        content == trim(contentField)
        data == noteData(title, content)
        existing == findIndex(notes, currentId)
    IN  IF currentId = Null
        THEN NoStore({}) /\ UNCHANGED <<notes, currentId, view>>
        ELSE IF title = <<>> /\ content = <<>>
        THEN /\ NoStore({})
             /\ UNCHANGED notes
             /\ IF showFeedback
                THEN view' = "list" /\ currentId' = Null
                ELSE UNCHANGED <<currentId, view>>
        ELSE IF ~validateNote(data)
        THEN NoStore({InvalidMsg}) /\ UNCHANGED <<notes, currentId, view>>
        ELSE /\ existing = 0 => Len(notes) < MaxNotes
             /\ notes' = IF existing > 0
                         THEN [notes EXCEPT ![existing] = merged(@, data)]
                         ELSE <<[data EXCEPT !.created = DateOf(clock)]>> \o notes
             /\ Store(notes', f, {})
             /\ UNCHANGED <<currentId, view>>

\* Ctrl+S in handleKeyboard: if (this.currentId) this.saveNote(true)
saveNote(f) ==
    /\ saveNoteBody(TRUE, f)
    /\ UNCHANGED <<titleField, contentField, saveTimeout, selectionMode,
                   selectedNotes, clock, calls, arg, result>>

\* the timer callback of autoSave: if (this.currentId) this.saveNote(false)
autoSaveFire(f) ==
    /\ saveTimeout
    /\ saveTimeout' = FALSE
    /\ saveNoteBody(FALSE, f)
    /\ UNCHANGED <<titleField, contentField, selectionMode, selectedNotes, clock,
                   calls, arg, result>>

\* confirmDelete removing only the first record with the current id
confirmDelete_FirstOnly(f) ==
    /\ IF currentId = Null
       THEN NoStore({}) /\ UNCHANGED <<notes, currentId, view>>
       ELSE /\ notes' = LET i == findIndex(notes, currentId)
                        IN  IF i = 0 THEN notes
                            ELSE SubSeq(notes, 1, i - 1) \o SubSeq(notes, i + 1, Len(notes))
            /\ Store(notes', f, {})
            /\ view' = "list"
            /\ currentId' = Null
    /\ UNCHANGED <<titleField, contentField, saveTimeout, selectionMode,
                   selectedNotes, clock, calls, arg, result>>

\* NoteApp.confirmDelete (the delete modal of the editor)
confirmDelete(f) ==
    /\ IF currentId = Null
       THEN NoStore({}) /\ UNCHANGED <<notes, currentId, view>>
       ELSE /\ notes' = SelectSeq(notes, LAMBDA n : n.id # currentId)
            /\ Store(notes', f, {})
            /\ view' = "list"
            /\ currentId' = Null
    /\ UNCHANGED <<titleField, contentField, saveTimeout, selectionMode,
                   selectedNotes, clock, calls, arg, result>>

\* NoteApp.toggleSelectionMode
toggleSelectionMode ==
    /\ view = "list"
    /\ selectionMode' = ~selectionMode
    /\ selectedNotes' = {}
    /\ NoStore({})
    /\ UNCHANGED <<notes, currentId, titleField, contentField, saveTimeout, view,
                   clock, calls, arg, result>>

\* NoteApp.exitSelectionMode
exitSelectionMode ==
    /\ view = "list"
    /\ selectionMode
    /\ selectionMode' = FALSE
    /\ selectedNotes' = {}
    /\ NoStore({})
    /\ UNCHANGED <<notes, currentId, titleField, contentField, saveTimeout, view,
                   clock, calls, arg, result>>

\* NoteApp.selectAll (the button of the bulk bar)
selectAll ==
    /\ view = "list"
    /\ selectionMode
    /\ selectedNotes' = selectedNotes \cup {notes[i].id : i \in DOMAIN notes}
    /\ NoStore({})
    /\ UNCHANGED <<notes, currentId, titleField, contentField, saveTimeout,
                   selectionMode, view, clock, calls, arg, result>>

\* NoteApp.deselectAll
deselectAll ==
    /\ view = "list"
    /\ selectionMode
    /\ selectedNotes' = {}
    /\ NoStore({})
    /\ UNCHANGED <<notes, currentId, titleField, contentField, saveTimeout,
                   selectionMode, view, clock, calls, arg, result>>

\* String(v) for the values an id can hold: what data-id holds
ToText(v) ==
    CASE v.t = "string" -> v
      [] v.t = "undefined" -> Str(Text(<<"u", "n", "d", "e", "f", "i", "n", "e", "d">>))
      [] v.t = "null" -> Str(Text(<<"n", "u", "l">>) \o Run("l", 1))
      [] v.t = "number" -> Str(toString(v.n))
      [] v.t = "boolean" -> Str(IF v.n = 1 THEN Text(<<"t", "r", "u", "e">>)
                                ELSE Text(<<"f", "a", "l", "s", "e">>))
      [] OTHER -> Str(Text(<<"[", "o", "b", "j", "e", "c", "t", " ", "O", "b", "j", "e", "c", "t", "]">>))

\* NoteApp.toggleNoteSelection(el.dataset.id) for the i-th note of the list
toggleNoteSelection(i) ==
    /\ view = "list"
    /\ selectionMode
    /\ i \in DOMAIN notes
    /\ LET noteId == ToText(notes[i].id)
       IN  selectedNotes' = IF noteId \in selectedNotes
                            THEN selectedNotes \ {noteId}
                            ELSE selectedNotes \cup {noteId}
    /\ NoStore({})
    /\ UNCHANGED <<notes, currentId, titleField, contentField, saveTimeout,
                   selectionMode, view, clock, calls, arg, result>>

\* bulkDeleteSelected and the handleDelete of its modal
bulkDelete(f) ==
    /\ view = "list"
    /\ selectionMode
    /\ IF selectedNotes = {}
       THEN NoStore({NoSelectionMsg}) /\ UNCHANGED <<notes, selectedNotes>>
       ELSE /\ notes' = SelectSeq(notes, LAMBDA n : n.id \notin selectedNotes)
            /\ selectedNotes' = {}
            /\ Store(notes', f, {DeletedMsg(Cardinality(selectedNotes))})
    /\ UNCHANGED <<currentId, titleField, contentField, saveTimeout, selectionMode,
                   view, clock, calls, arg, result>>

\* importNotes appending every entry of the file
importNotes_NoFilter(file, f) ==
    /\ IF file.k # "backup"
       THEN NoStore({ImportFormatMsg}) /\ UNCHANGED notes
       ELSE /\ Len(notes) + Len(file.arr) <= MaxNotes
            /\ notes' = notes \o file.arr
            /\ Store(notes', f, {ImportedMsg(Len(file.arr))})
    /\ UNCHANGED <<currentId, titleField, contentField, saveTimeout, selectionMode,
                   selectedNotes, view, clock, calls, arg, result>>

\* importNotes putting the entries of the file before the collection
importNotes_Prepend(file, f) ==
    /\ IF file.k # "backup"
       THEN NoStore({ImportFormatMsg}) /\ UNCHANGED notes
       ELSE LET validNotes == filter(file.arr, validateNote)
            IN  /\ Len(notes) + Len(validNotes) <= MaxNotes
                /\ notes' = validNotes \o notes
                /\ Store(notes', f, {ImportedMsg(Len(validNotes))})
    /\ UNCHANGED <<currentId, titleField, contentField, saveTimeout, selectionMode,
                   selectedNotes, view, clock, calls, arg, result>>

\* importNotes emptying the collection when the file is not a backup
importNotes_ClearsOnError(file, f) ==
    /\ IF file.k # "backup"
       THEN /\ notes' = <<>>
            /\ Store(notes', f, {ImportFormatMsg})
       ELSE LET validNotes == filter(file.arr, validateNote)
            IN  /\ Len(notes) + Len(validNotes) <= MaxNotes
                /\ notes' = notes \o validNotes
                /\ Store(notes', f, {ImportedMsg(Len(validNotes))})
    /\ UNCHANGED <<currentId, titleField, contentField, saveTimeout, selectionMode,
                   selectedNotes, view, clock, calls, arg, result>>

\* the reader.onload of NoteApp.importNotes for the file read
importNotes(file, f) ==
    /\ IF file.k # "backup"
       THEN NoStore({ImportFormatMsg}) /\ UNCHANGED notes
       ELSE LET validNotes == filter(file.arr, validateNote)
            IN  /\ Len(notes) + Len(validNotes) <= MaxNotes
                /\ notes' = notes \o validNotes
                /\ Store(notes', f, {ImportedMsg(Len(validNotes))})
    /\ UNCHANGED <<currentId, titleField, contentField, saveTimeout, selectionMode,
                   selectedNotes, view, clock, calls, arg, result>>

\* syncFromStorage that takes the stored collection only when it is longer
synced_OnlyGrows(ns, raw) ==
    LET stored == loadNotes(raw)
    IN  IF Len(stored) > Len(ns) THEN stored ELSE ns

\* syncFromStorage that never replaces the collection
synced_KeepsOwn(ns, raw) == ns

\* syncFromStorage that puts the records only this tab has behind the stored
\* ones
synced_Merge(ns, raw) ==
    LET stored == loadNotes(raw)
    IN  IF JSONstringify(stored) # JSONstringify(ns)
        THEN stored \o SelectSeq(ns, LAMBDA n : \A i \in DOMAIN stored : stored[i].id # n.id)
        ELSE ns

\* the collection syncFromStorage leaves in a tab whose collection is ns
synced(ns, raw) ==
    LET stored == loadNotes(raw)
    IN  IF JSONstringify(stored) # JSONstringify(ns) THEN stored ELSE ns

\* a reconciliation that writes what it loaded back under the key
syncFromStorage_WritesBack ==
    /\ notes' = synced(notes, storage)
    /\ storage' = JSONstringify(notes')
    /\ writer' = "app"
    /\ notifications' = loadNotesResult(storage).shown
    /\ UNCHANGED <<currentId, titleField, contentField, saveTimeout,
                   selectionMode, selectedNotes, view, clock, calls, arg, result>>

\* NoteApp.syncFromStorage (the 30 s interval, window focus, storage event)
syncFromStorage ==
    /\ notes' = synced(notes, storage)
    /\ notifications' = loadNotesResult(storage).shown
    /\ UNCHANGED <<storage, writer, currentId, titleField, contentField, saveTimeout,
                   selectionMode, selectedNotes, view, clock, calls, arg, result>>

\* another tab or another script of the page stores a text under the key
otherWriter(text) ==
    /\ storage # text
    /\ storage' = text
    /\ writer' = "other"
    /\ notifications' = {}
    /\ UNCHANGED <<notes, currentId, titleField, contentField, saveTimeout,
                   selectionMode, selectedNotes, view, clock, calls, arg, result>>

\* The application with a storage that stores what it is given: every handler,
\* in any order (lastOp is not used here).
Next ==
    \/ Tick /\ UNCHANGED <<lastOp, draftId, peerNotes, timers, trace>>
    \/ newNote /\ UNCHANGED <<lastOp, draftId, peerNotes, timers, trace>>
    \/ showList /\ UNCHANGED <<lastOp, draftId, peerNotes, timers, trace>>
    \/ \E i \in 1..MaxNotes : openNote(i) /\ UNCHANGED <<lastOp, draftId, peerNotes, timers, trace>>
    \/ \E text \in TitleInputs : handleInput("title", text) /\ UNCHANGED <<lastOp, draftId, peerNotes, timers, trace>>
    \/ \E text \in ContentInputs : handleInput("content", text) /\ UNCHANGED <<lastOp, draftId, peerNotes, timers, trace>>
    \/ saveNote(NoFault) /\ UNCHANGED <<lastOp, draftId, peerNotes, timers, trace>>
    \/ autoSaveFire(NoFault) /\ UNCHANGED <<lastOp, draftId, peerNotes, timers, trace>>
    \/ confirmDelete(NoFault) /\ UNCHANGED <<lastOp, draftId, peerNotes, timers, trace>>
    \/ toggleSelectionMode /\ UNCHANGED <<lastOp, draftId, peerNotes, timers, trace>>
    \/ exitSelectionMode /\ UNCHANGED <<lastOp, draftId, peerNotes, timers, trace>>
    \/ selectAll /\ UNCHANGED <<lastOp, draftId, peerNotes, timers, trace>>
    \/ deselectAll /\ UNCHANGED <<lastOp, draftId, peerNotes, timers, trace>>
    \/ \E i \in 1..MaxNotes : toggleNoteSelection(i) /\ UNCHANGED <<lastOp, draftId, peerNotes, timers, trace>>
    \/ bulkDelete(NoFault) /\ UNCHANGED <<lastOp, draftId, peerNotes, timers, trace>>
    \/ \E file \in ImportFiles : importNotes(file, NoFault) /\ UNCHANGED <<lastOp, draftId, peerNotes, timers, trace>>
    \/ syncFromStorage /\ UNCHANGED <<lastOp, draftId, peerNotes, timers, trace>>
    \/ \E text \in OtherTexts : otherWriter(text) /\ UNCHANGED <<lastOp, draftId, peerNotes, timers, trace>>

Spec == Init /\ [][Next]_vars

---------------------------------------------------------------------------
(* Claims about the collection in every reachable state *)

AllValid(seq) == \A i \in DOMAIN seq : validateNote(seq[i])

C9_UniqueIds ==
    \A i, j \in DOMAIN notes : i # j => notes[i].id # notes[j].id

---------------------------------------------------------------------------
(* SpecSave: one call of saveNote, from the editor or from the auto-save    *)
(* timer, in each of a set of application states, under every storage       *)
(* behaviour                                                                *)

\* a record saved in this tab at instant 0, and one read back from the key
SavedRecord ==
    Object(Str(Run("A", 1)), Str(Run("x", 1)), Str(toString(0)), DateOf(0), DateOf(0))

ReloadedRecord ==
    toJSON(Object(Str(Untitled), Str(Run("x", 1)), Str(toString(0)), DateOf(0), DateOf(0)))

SaveCollections ==
    {c \in SeqsUpTo({RecordOne, SavedRecord, ReloadedRecord}, MaxNotes) :
        \A i, j \in DOMAIN c : i # j => c[i].id # c[j].id}

SaveTitles == {<<>>, Run(" ", 1), Run("A", 1)}

SaveContents == {<<>>, Run(" ", 1), Run("x", 1)}

InitSave ==
    /\ notes \in SaveCollections
    /\ storage \in {JSONstringify(notes), Absent, Garbage}
    /\ writer = IF storage.k = "array" THEN "app" ELSE "other"
    /\ clock \in 0..MaxClock
    /\ currentId \in {Null, Str(toString(0)), Str(toString(1))}
    /\ currentId = Str(toString(1)) => (clock >= 1 \/ \E i \in DOMAIN notes : notes[i] = RecordOne)
    /\ view = IF currentId = Null THEN "list" ELSE "editor"
    /\ titleField \in SaveTitles
    /\ contentField \in SaveContents
    /\ saveTimeout \in BOOLEAN
    /\ selectionMode = FALSE
    /\ selectedNotes = {}
    /\ notifications = {}
    /\ calls = <<>>
    /\ lastOp = "init"
    /\ arg = NoFault
    /\ result = NotCalled
    /\ draftId = Null
    /\ timers = TimersAtStart
    /\ trace = NoTrace
    /\ peerNotes = <<>>

SaveByKey ==
    /\ lastOp = "init"
    /\ \E f \in Faults : saveNote(f)
    /\ lastOp' = "saveNote"
    /\ UNCHANGED <<draftId, peerNotes, timers, trace>>

SaveByTimer ==
    /\ lastOp = "init"
    /\ \E f \in Faults : autoSaveFire(f)
    /\ lastOp' = "autoSave"
    /\ UNCHANGED <<draftId, peerNotes, timers, trace>>

NextSave == SaveByKey \/ SaveByTimer

SpecSave == InitSave /\ [][NextSave]_vars

BlankEditor == trim(titleField) = <<>> /\ trim(contentField) = <<>>

\* C10: a saveNote that finds the trimmed title and the trimmed content both
\* empty changes neither the in-memory collection nor the value of the key.
C10_EmptySaveIsNoOp ==
    [][(lastOp' \in {"saveNote", "autoSave"} /\ BlankEditor)
        => (notes' = notes /\ storage' = storage)]_vars

C10_Witness ==
    /\ lastOp = "autoSave"
    /\ currentId = Str(toString(0))
    /\ titleField = Run(" ", 1)
    /\ contentField = <<>>
    /\ notes = <<SavedRecord, RecordOne>>
    /\ storage = JSONstringify(notes)

---------------------------------------------------------------------------
(* SpecDraft: newNote, then typing, saves by Ctrl+S and by the auto-save    *)
(* timer under every storage behaviour, the way back to the list, and a     *)
(* final loadNotes()                                                        *)

\* does the collection, or the text of the key, hold a record with this id
HasId(ns, id) == \E i \in DOMAIN ns : ns[i].id = id

StoredHasId(raw, id) == raw.k = "array" /\ HasId(raw.arr, id)

\* collections with no record whose id is an instant of the modelled clock
\* still to come (Date.now() gives a new id)
InitDraft ==
    /\ notes \in SaveCollections
    /\ clock \in 0..MaxClock
    /\ ~HasId(notes, Str(toString(clock)))
    /\ storage \in {JSONstringify(notes), Absent}
    /\ writer = IF storage.k = "array" THEN "app" ELSE "other"
    /\ currentId = Null
    /\ view = "list"
    /\ titleField = <<>>
    /\ contentField = <<>>
    /\ saveTimeout = FALSE
    /\ selectionMode = FALSE
    /\ selectedNotes = {}
    /\ notifications = {}
    /\ calls = <<>>
    /\ lastOp = "init"
    /\ arg = NoFault
    /\ result = NotCalled
    /\ draftId = Null
    /\ timers = TimersAtStart
    /\ trace = NoTrace
    /\ peerNotes = <<>>

DraftNew ==
    /\ lastOp = "init"
    /\ newNote
    /\ draftId' = currentId'
    /\ lastOp' = "newNote"
    /\ UNCHANGED <<peerNotes, timers, trace>>

DraftType ==
    /\ lastOp \notin {"init", "loadNotes"}
    /\ \/ \E text \in SaveTitles : handleInput("title", text)
       \/ \E text \in SaveContents : handleInput("content", text)
    /\ UNCHANGED <<lastOp, draftId, peerNotes, timers, trace>>

\* what a call of saveNote is for the draft: nothing without a current id,
\* an empty save, or a save of a non-empty title or content
SaveKind ==
    IF currentId = Null \/ lastOp = "save" THEN lastOp
    ELSE IF BlankEditor THEN "emptySave" ELSE "save"

DraftSaveByKey ==
    /\ lastOp \notin {"init", "loadNotes"}
    /\ \E f \in Faults : saveNote(f)
    /\ lastOp' = SaveKind
    /\ UNCHANGED <<draftId, peerNotes, timers, trace>>

DraftSaveByTimer ==
    /\ lastOp \notin {"init", "loadNotes"}
    /\ \E f \in Faults : autoSaveFire(f)
    /\ lastOp' = SaveKind
    /\ UNCHANGED <<draftId, peerNotes, timers, trace>>

DraftBack ==
    /\ lastOp \notin {"init", "loadNotes"}
    /\ view = "editor"
    /\ showList
    /\ UNCHANGED <<lastOp, draftId, peerNotes, timers, trace>>

\* loadNotes() once the user is back on the list and no save has been made
DraftLoad ==
    /\ lastOp \in {"newNote", "emptySave"}
    /\ view = "list"
    /\ result' = Returned(loadNotes(storage), loadNotesResult(storage).shown)
    /\ lastOp' = "loadNotes"
    /\ UNCHANGED <<notes, storage, currentId, titleField, contentField, saveTimeout,
                   selectionMode, selectedNotes, view, clock, notifications,
                   calls, writer, arg, draftId, peerNotes, timers, trace>>

NextDraft ==
    \/ DraftNew
    \/ DraftType
    \/ DraftSaveByKey
    \/ DraftSaveByTimer
    \/ DraftBack
    \/ DraftLoad

SpecDraft == InitDraft /\ [][NextDraft]_vars

\* C11: newNote changes neither the collection nor the key; a step after
\* which the collection or the key holds a record with the draft's id, when
\* neither did before, is a save with a non-empty trimmed title or content;
\* loadNotes() after newNote, empty saves only and the way back to the list
\* returns no record with the draft's id.
C11_DraftNotPersisted ==
    [][/\ lastOp' = "newNote" => (notes' = notes /\ storage' = storage)
       /\ (/\ draftId' # Null
           /\ ~HasId(notes, draftId') /\ ~StoredHasId(storage, draftId')
           /\ HasId(notes', draftId') \/ StoredHasId(storage', draftId'))
          => (lastOp' = "save" /\ ~BlankEditor)
       /\ lastOp' = "loadNotes" => ~HasId(result'.value, draftId)]_vars

C11_Witness ==
    /\ lastOp = "loadNotes"
    /\ result.done
    /\ draftId = Str(toString(0))
    /\ ~saveTimeout
    /\ titleField = Run(" ", 1)
    /\ contentField = Run(" ", 1)
    /\ result.value = <<RecordOne>>

---------------------------------------------------------------------------
(* Claims about one call of saveNote (SpecSave) *)

\* the call reached the update of the collection: there is a current id, the
\* trimmed title or content is not empty and the record passed validateNote
SaveWentThrough ==
    /\ lastOp' \in {"saveNote", "autoSave"}
    /\ currentId # Null
    /\ ~BlankEditor
    /\ InvalidMsg \notin notifications'

\* C12: a save of an id already in the collection leaves the length of the
\* collection, every other record, and the id and the created stamp of the
\* record at the id's position as they were.
C12_UpdateInPlace ==
    [][(SaveWentThrough /\ HasId(notes, currentId))
        => LET i == findIndex(notes, currentId)
           IN  /\ Len(notes') = Len(notes)
               /\ \A j \in DOMAIN notes : j # i => notes'[j] = notes[j]
               /\ notes'[i].id = notes[i].id
               /\ notes'[i].created = notes[i].created
               /\ notes'[i].v = notes[i].v]_vars

C12_Witness ==
    /\ lastOp = "saveNote"
    /\ clock = 1
    /\ Len(notes) = 2
    /\ notes[1] = RecordOne
    /\ notes[2].id = Str(toString(0))
    /\ notes[2].created = DateOf(0)
    /\ notes[2].updated = DateOf(1)
    /\ notes[2].title = Str(Untitled)

\* C13: a save of an id that is not in the collection puts one record at the
\* head, with that id and with created and updated at the instant of the
\* save, and the previous collection follows it unchanged.
C13_InsertAtHead ==
    [][(SaveWentThrough /\ ~HasId(notes, currentId))
        => /\ Len(notes') = Len(notes) + 1
           /\ Tail(notes') = notes
           /\ Head(notes').id = currentId
           /\ Head(notes').created = DateOf(clock)
           /\ Head(notes').updated = DateOf(clock)]_vars

C13_Witness ==
    /\ lastOp = "autoSave"
    /\ clock = 1
    /\ currentId = Str(toString(0))
    /\ Len(notes) = 2
    /\ notes[2] = RecordOne
    /\ notes[1].id = Str(toString(0))
    /\ notes[1].created = DateOf(1)
    /\ notes[1].updated = DateOf(1)
    /\ storage = JSONstringify(notes)

\* C14: the record a save writes has the trimmed title of the editor, or the
\* literal "untitled" when that is empty, in the collection and in the text
\* of the key the save wrote: never an empty title.
C14_UntitledDefault ==
    [][SaveWentThrough
        => LET i == findIndex(notes', currentId)
               title == IF trim(titleField) = <<>> THEN Untitled ELSE trim(titleField)
           IN  /\ i > 0
               /\ notes'[i].title = Str(title)
               /\ notes'[i].title.s # <<>>
               /\ (storage' # storage /\ storage'.k = "array")
                    => storage'.arr[i].title = Str(title)]_vars

C14_Witness ==
    /\ lastOp = "saveNote"
    /\ clock = 1
    /\ titleField = Run(" ", 1)
    /\ contentField = Run("x", 1)
    /\ currentId = Str(toString(0))
    /\ Len(notes) = 1
    /\ notes[1].title = Str(Untitled)
    /\ notes[1].content = Str(Run("x", 1))
    /\ notes[1].updated = DateOf(1)
    /\ storage = JSONstringify(notes)

---------------------------------------------------------------------------
(* SpecShare: the application opened as a share target (action=share with   *)
(* title, text and url parameters), then saves, by Ctrl+S at once or by the *)
(* auto-save timer after an input event                                     *)

\* a + b for two strings
concat(a, b) ==
    IF a = <<>> THEN b
    ELSE IF b = <<>> THEN a
    ELSE IF a[Len(a)].c = Head(b).c
    THEN SubSeq(a, 1, Len(a) - 1) \o Run(Head(b).c, a[Len(a)].n + Head(b).n) \o Tail(b)
    ELSE a \o b

\* parts.filter(Boolean).join('\n\n')
RECURSIVE join(_)
join(parts) ==
    IF parts = <<>> THEN <<>>
    ELSE IF Head(parts) = <<>> THEN join(Tail(parts))
    ELSE IF join(Tail(parts)) = <<>> THEN Head(parts)
    ELSE concat(Head(parts), concat(Run("\n", 2), join(Tail(parts))))

SharedNote == Text(<<"S", "h", "a", "r", "e", "d", " ", "N", "o", "t", "e">>)

\* the title, text and url parameters of the share
ShareTitles == {<<>>, Run("A", 1), Run("a", maxTitleLength), Run("a", maxTitleLength + 1)}

ShareTexts == {<<>>, Run("x", 1), Run("x", maxNoteLength - 2), Run("x", maxNoteLength + 1)}

ShareUrls == {<<>>, Run("u", 1)}

\* the state the constructor leaves with action=share: loadNotes(), then
\* handleShareTarget
InitShare ==
    /\ storage \in InitialTexts
    /\ writer = "other"
    /\ notes = loadNotes(storage)
    /\ clock \in 0..MaxClock
    /\ saveTimeout = FALSE
    /\ selectionMode = FALSE
    /\ selectedNotes = {}
    /\ notifications = loadNotesResult(storage).shown
    /\ calls = <<>>
    /\ lastOp = "init"
    /\ arg = NoFault
    /\ result = NotCalled
    /\ draftId = Null
    /\ timers = TimersAtStart
    /\ trace = NoTrace
    /\ peerNotes = <<>>
    /\ \E title \in ShareTitles, text \in ShareTexts, url \in ShareUrls :
        IF title # <<>> \/ text # <<>> \/ url # <<>>
        THEN /\ currentId = Str(toString(clock))
             /\ view = "editor"
             /\ titleField = (IF title # <<>> THEN title ELSE SharedNote)
             /\ contentField = join(<<title, text, url>>)
        ELSE /\ currentId = Null
             /\ view = "list"
             /\ titleField = <<>>
             /\ contentField = <<>>

ShareSaveByKey ==
    /\ lastOp \in {"init", "handleInput"}
    /\ \E f \in Faults : saveNote(f)
    /\ lastOp' = "saveNote"
    /\ UNCHANGED <<draftId, peerNotes, timers, trace>>

\* an input event that leaves the text of the fields to handleInput's cut
ShareType ==
    /\ lastOp = "init"
    /\ \/ handleInput("title", titleField)
       \/ handleInput("content", contentField)
    /\ lastOp' = "handleInput"
    /\ UNCHANGED <<draftId, peerNotes, timers, trace>>

ShareSaveByTimer ==
    /\ lastOp = "handleInput"
    /\ \E f \in Faults : autoSaveFire(f)
    /\ lastOp' = "autoSave"
    /\ UNCHANGED <<draftId, peerNotes, timers, trace>>

NextShare == ShareSaveByKey \/ ShareType \/ ShareSaveByTimer

SpecShare == InitShare /\ [][NextShare]_vars

\* the record saveNote builds from the editor does not pass validateNote
EditorInvalid ==
    /\ currentId # Null
    /\ ~BlankEditor
    /\ ~validateNote(noteData(trim(titleField), trim(contentField)))

\* C15: a saveNote whose record fails validateNote shows the invalid-data
\* notification, leaves the in-memory collection as it was and writes
\* nothing to the key.
C15_InvalidSaveRejected ==
    [][(lastOp' \in {"saveNote", "autoSave"} /\ EditorInvalid)
        => /\ InvalidMsg \in notifications'
           /\ notes' = notes
           /\ storage' = storage
           /\ writer' = writer]_vars

C15_Witness ==
    /\ lastOp = "saveNote"
    /\ InvalidMsg \in notifications
    /\ StrLen(titleField) = maxTitleLength + 1
    /\ contentField = concat(titleField, Run("\n", 2) \o Run("u", 1))
    /\ notes = <<RecordOne>>
    /\ storage = ArrayText(<<RecordOne, Malformed>>)
    /\ view = "editor"

---------------------------------------------------------------------------
(* SpecDelete: confirmDelete from the editor and bulk delete from the list, *)
(* once and once more, under every storage behaviour                        *)

\* a record without an id: data-id shows it as "undefined"
NoIdRecord == Object(Str(Run("B", 1)), Str(Run("y", 1)), Undefined, Undefined, Undefined)

\* collections as saves, loads and imports leave them (an import can repeat
\* an id)
DeleteCollections ==
    SeqsUpTo({RecordOne, SavedRecord, ReloadedRecord, NoIdRecord}, MaxNotes)

InitDelete ==
    /\ notes \in DeleteCollections
    /\ storage \in {JSONstringify(notes), Garbage}
    /\ writer = IF storage.k = "array" THEN "app" ELSE "other"
    /\ clock = 0
    /\ titleField = <<>>
    /\ contentField = <<>>
    /\ saveTimeout = FALSE
    /\ notifications = {}
    /\ calls = <<>>
    /\ lastOp = "init"
    /\ arg = NoFault
    /\ result = NotCalled
    /\ draftId = Null
    /\ timers = TimersAtStart
    /\ trace = NoTrace
    /\ peerNotes = <<>>
    /\ \/ /\ view = "editor"
          /\ currentId \in {Str(toString(0)), Str(toString(1))}
          /\ selectionMode = FALSE
          /\ selectedNotes = {}
       \/ /\ view = "list"
          /\ currentId = Null
          /\ selectionMode = TRUE
          /\ selectedNotes \in SUBSET {ToText(Str(toString(0))), ToText(Str(toString(1))),
                                       ToText(Undefined)}

DeleteCurrent ==
    /\ lastOp = "init"
    /\ \E f \in Faults : confirmDelete(f)
    /\ lastOp' = "confirmDelete"
    /\ UNCHANGED <<draftId, peerNotes, timers, trace>>

DeleteSelected ==
    /\ lastOp = "init"
    /\ \E f \in Faults : bulkDelete(f)
    /\ lastOp' = "bulkDelete"
    /\ UNCHANGED <<draftId, peerNotes, timers, trace>>

\* the same delete asked for once more (a second click on the button of the
\* modal)
DeleteAgain ==
    /\ \/ /\ lastOp = "confirmDelete"
          /\ \E f \in Faults : confirmDelete(f)
          /\ lastOp' = "confirmDelete again"
       \/ /\ lastOp = "bulkDelete"
          /\ \E f \in Faults : bulkDelete(f)
          /\ lastOp' = "bulkDelete again"
    /\ UNCHANGED <<draftId, peerNotes, timers, trace>>

NextDelete == DeleteCurrent \/ DeleteSelected \/ DeleteAgain

SpecDelete == InitDelete /\ [][NextDelete]_vars

\* value is arr without the elements at the positions `gone`, in arr's order
KeepsAllBut(value, arr, gone) ==
    /\ Len(value) = Len(arr) - Cardinality(gone)
    /\ \E f \in [DOMAIN value -> DOMAIN arr \ gone] :
        /\ \A k \in DOMAIN value : value[k] = arr[f[k]]
        /\ \A j, k \in DOMAIN value : j < k => f[j] < f[k]

\* C16: confirmDelete leaves the collection without the records whose id is
\* the current id, bulk delete without the records whose id is in the
\* selected set, the others in their order; the key then holds the new
\* collection unless the save-failed notification is shown; a delete for an
\* id, or for ids, no record has, and a delete asked once more, leave the
\* collection as it was.
C16_DeleteExactly ==
    [][/\ (lastOp' \in {"confirmDelete", "confirmDelete again"} /\ currentId # Null)
          => /\ KeepsAllBut(notes', notes, {i \in DOMAIN notes : notes[i].id = currentId})
             /\ ~HasId(notes, currentId) => notes' = notes
             /\ SaveFailedMsg \notin notifications' => storage' = JSONstringify(notes')
       /\ (lastOp' \in {"bulkDelete", "bulkDelete again"} /\ selectedNotes # {})
          => /\ KeepsAllBut(notes', notes, {i \in DOMAIN notes : notes[i].id \in selectedNotes})
             /\ (\A id \in selectedNotes : ~HasId(notes, id)) => notes' = notes
             /\ SaveFailedMsg \notin notifications' => storage' = JSONstringify(notes')
       /\ lastOp' \in {"confirmDelete again", "bulkDelete again"}
          => (notes' = notes /\ storage' = storage)]_vars

C16_Witness ==
    /\ lastOp = "confirmDelete"
    /\ CriticalMsg \in notifications
    /\ storage = JSONstringify(<<SavedRecord, RecordOne>>)
    /\ notes = <<RecordOne>>
    /\ view = "list"

---------------------------------------------------------------------------
(* NoteApp.search and SpecSearch: search(query), twice in a row, on every   *)
(* sampled collection and query                                             *)

\* the lower-case form of a character of the sampled texts
lowerChar(c) ==
    CASE c = "A" -> "a"
      [] c = "B" -> "b"
      [] c = "X" -> "x"
      [] OTHER -> c

\* String.prototype.toLowerCase
RECURSIVE toLowerCase(_)
toLowerCase(s) ==
    IF s = <<>> THEN <<>>
    ELSE concat(Run(lowerChar(Head(s).c), Head(s).n), toLowerCase(Tail(s)))

\* does q start at the run i of s
IncludesAt(s, q, i) ==
    LET k == Len(q)
    IN  /\ i + k - 1 <= Len(s)
        /\ \A j \in 1..k : s[i + j - 1].c = q[j].c
        /\ IF k = 1 THEN s[i].n >= q[1].n
           ELSE /\ s[i].n >= q[1].n
                /\ s[i + k - 1].n >= q[k].n
                /\ \A j \in 2..(k - 1) : s[i + j - 1].n = q[j].n

\* String.prototype.includes
includes(s, q) == q = <<>> \/ \E i \in DOMAIN s : IncludesAt(s, q, i)

\* the callback of the filter for one record: n.title.toLowerCase() and
\* n.content.toLowerCase() throw a TypeError on a value that is no string
searchMatch(n, q) ==
    IF n.title.t # "string" THEN "throw"
    ELSE IF includes(toLowerCase(n.title.s), q) THEN "yes"
    ELSE IF n.content.t # "string" THEN "throw"
    ELSE IF includes(toLowerCase(n.content.s), q) THEN "yes"
    ELSE "no"

\* search comparing the query, not the trimmed query, with empty
searchResult_NoTrim(ns, query) ==
    IF query = <<>>
    THEN [threw |-> FALSE, shown |-> ns]
    ELSE LET q == toLowerCase(query)
         IN  IF \E i \in DOMAIN ns : searchMatch(ns[i], q) = "throw"
             THEN [threw |-> TRUE, shown |-> <<>>]
             ELSE [threw |-> FALSE,
                   shown |-> SelectSeq(ns, LAMBDA n : searchMatch(n, q) = "yes")]

\* NoteApp.search(query): the records handed to renderNotes, or the
\* TypeError that leaves the handler
searchResult(ns, query) ==
    IF trim(query) = <<>>
    THEN [threw |-> FALSE, shown |-> ns]
    ELSE LET q == toLowerCase(query)
         IN  IF \E i \in DOMAIN ns : searchMatch(ns[i], q) = "throw"
             THEN [threw |-> TRUE, shown |-> <<>>]
             ELSE [threw |-> FALSE,
                   shown |-> SelectSeq(ns, LAMBDA n : searchMatch(n, q) = "yes")]

\* records as saved ("ab" / "B"), and as loaded without a title or without
\* a content
RecordTwo ==
    Object(Str(Text(<<"a", "b">>)), Str(Run("B", 1)), Str(Run("2", 1)), DateOf(0), DateOf(0))

NoTitleRecord == Object(Undefined, Str(Run("a", 1)), Str(Run("3", 1)), Undefined, Undefined)

NoContentRecord == Object(Str(Run("b", 1)), Undefined, Str(Run("4", 1)), Undefined, Undefined)

SearchCollections ==
    SeqsUpTo({RecordOne, RecordTwo, NoTitleRecord, NoContentRecord}, MaxNotes)

Queries ==
    {<<>>, Run(" ", 1), Run(" ", 2), Run("a", 1), Run("A", 1), Run("b", 1),
     Text(<<"a", "b">>), Text(<<"A", "B">>), Text(<<" ", "x">>), Run("z", 1)}

InitSearch ==
    /\ AppAtRest
    /\ notes \in SearchCollections
    /\ storage \in {JSONstringify(notes), Absent}
    /\ arg \in Queries
    /\ result = Returned(<<>>, {})

\* this.search(arg): result.value collects what each call produced
CallSearch ==
    /\ Len(result.value) < 2
    /\ result' = Returned(Append(result.value, searchResult(notes, arg)), {})
    /\ lastOp' = "search"
    /\ UNCHANGED <<notes, storage, currentId, titleField, contentField, saveTimeout,
                   selectionMode, selectedNotes, view, clock, notifications,
                   calls, writer, arg, draftId, peerNotes, timers, trace>>

NextSearch == CallSearch

SpecSearch == InitSearch /\ [][NextSearch]_vars

\* C17: search with an empty or whitespace-only query shows the whole
\* collection in its order; no search changes the in-memory collection or
\* the key; a second search with the same query produces what the first did.
C17_SearchReadOnly ==
    [][lastOp' = "search"
        => /\ notes' = notes
           /\ storage' = storage
           /\ trim(arg) = <<>>
                => result'.value[Len(result'.value)] = [threw |-> FALSE, shown |-> notes]
           /\ Len(result'.value) = 2 => result'.value[2] = result'.value[1]]_vars

C17_Witness ==
    /\ lastOp = "search"
    /\ arg = Run(" ", 2)
    /\ notes = <<NoTitleRecord, RecordOne>>
    /\ Len(result.value) = 2
    /\ result.value[2].shown = notes

\* does the field hold a text that contains q, letter case aside
FieldContains(v, q) == v.t = "string" /\ includes(toLowerCase(v.s), toLowerCase(q))

Contains(n, q) == FieldContains(n.title, q) \/ FieldContains(n.content, q)

\* C18: for a query that is not blank, search shows exactly the records whose
\* title or content contains the query, letter case aside, in the order of
\* the collection, and the query in lower case gives the same.
C18_SearchMatches ==
    (lastOp = "search" /\ trim(arg) # <<>>)
        => /\ result.value[1] =
                [threw |-> FALSE, shown |-> SelectSeq(notes, LAMBDA n : Contains(n, arg))]
           /\ searchResult(notes, toLowerCase(arg)) = result.value[1]

---------------------------------------------------------------------------
(* SpecTabs: two tabs on one storage.  This tab is the application (notes); *)
(* of the second tab only its collection (peerNotes) and the steps that     *)
(* persist or reconcile it are kept.  lastOp is the history of the steps:   *)
(* "A" this tab persisted, "B" the second tab persisted, "a" this tab       *)
(* reconciled, "b" the second tab reconciled, "x" a foreign text was stored *)

\* longest history followed
MaxSteps == 3

Step(op) ==
    /\ lastOp = "init" \/ Len(lastOp) < MaxSteps
    /\ lastOp' = IF lastOp = "init" THEN op ELSE lastOp \o op

\* both tabs have loaded the same text; this tab has a note in the editor
InitTabs ==
    /\ storage \in {Absent, Garbage, ArrayText(<<RecordOne>>), ArrayText(<<RecordOne, Malformed>>)}
    /\ writer = "other"
    /\ notes = loadNotes(storage)
    /\ peerNotes = loadNotes(storage)
    /\ clock = 0
    /\ currentId \in {Str(toString(0)), Str(Run("1", 1))}
    /\ view = "editor"
    /\ titleField \in {Run("A", 1), Run(" ", 1)}
    /\ contentField = Run("x", 1)
    /\ saveTimeout = FALSE
    /\ selectionMode = FALSE
    /\ selectedNotes = {}
    /\ notifications = {}
    /\ calls = <<>>
    /\ lastOp = "init"
    /\ arg = NoFault
    /\ result = NotCalled
    /\ draftId = Null
    /\ timers = TimersAtStart
    /\ trace = NoTrace

TabsTick ==
    /\ Tick
    /\ UNCHANGED <<lastOp, draftId, peerNotes, timers, trace>>

\* this tab persists a change: Ctrl+S, or the delete of the current note
ThisPersists ==
    /\ currentId # Null
    /\ saveNote(NoFault) \/ confirmDelete(NoFault)
    /\ Step("A")
    /\ UNCHANGED <<draftId, peerNotes, timers, trace>>

\* saveNote (lines 324-341) and store() in the second tab, for the id, title
\* and content of its editor
PeerSaves(id, title, content) ==
    LET data == Object(Str(IF title # <<>> THEN title ELSE Untitled), Str(content), id,
                       Undefined, DateOf(clock))
        existing == findIndex(peerNotes, id)
    IN  /\ validateNote(data)
        /\ existing = 0 => Len(peerNotes) < MaxNotes
        /\ peerNotes' = IF existing > 0
                        THEN [peerNotes EXCEPT ![existing] = merged(@, data)]
                        ELSE <<[data EXCEPT !.created = DateOf(clock)]>> \o peerNotes
        /\ storage' = storeResult(peerNotes', storage, NoFault).storage

\* confirmDelete and store() in the second tab
PeerDeletes(id) ==
    /\ peerNotes' = SelectSeq(peerNotes, LAMBDA n : n.id # id)
    /\ storage' = storeResult(peerNotes', storage, NoFault).storage

PeerPersists ==
    /\ \/ \E id \in {Str(toString(clock)), Str(Run("1", 1))} :
            PeerSaves(id, Run("B", 1), Run("y", 1))
       \/ PeerDeletes(Str(Run("1", 1)))
    /\ writer' = "other"
    /\ Step("B")
    /\ UNCHANGED <<notes, currentId, titleField, contentField, saveTimeout,
                   selectionMode, selectedNotes, view, clock, notifications,
                   calls, arg, result, draftId, timers, trace>>

\* the interval, window focus or the storage event in this tab
ThisReconciles ==
    /\ syncFromStorage
    /\ Step("a")
    /\ UNCHANGED <<draftId, peerNotes, timers, trace>>

\* syncFromStorage in the second tab
PeerReconciles ==
    /\ peerNotes' = synced(peerNotes, storage)
    /\ Step("b")
    /\ UNCHANGED <<notes, storage, writer, currentId, titleField, contentField,
                   saveTimeout, selectionMode, selectedNotes, view, clock,
                   notifications, calls, arg, result, draftId, timers, trace>>

ForeignWrite ==
    /\ otherWriter(Garbage)
    /\ Step("x")
    /\ UNCHANGED <<draftId, peerNotes, timers, trace>>

NextTabs ==
    \/ TabsTick
    \/ ThisPersists
    \/ PeerPersists
    \/ ThisReconciles
    \/ PeerReconciles
    \/ ForeignWrite

SpecTabs == InitTabs /\ [][NextTabs]_vars

\* this step is a reconciliation of this tab
Reconciled == lastOp' = (IF lastOp = "init" THEN "a" ELSE lastOp \o "a")

\* C19: a reconciliation loads the key; when the loaded collection and the
\* in-memory one differ as serialized, the loaded one takes its place, and
\* when they are equal the in-memory one is left as it is; either way the
\* two are equal as serialized afterwards, and the key is not written.
C19_ReconcileToStorage ==
    [][Reconciled
        => LET stored == loadNotes(storage)
           IN  /\ JSONstringify(stored) # JSONstringify(notes) => notes' = stored
               /\ JSONstringify(stored) = JSONstringify(notes) => notes' = notes
               /\ JSONstringify(notes') = JSONstringify(loadNotes(storage'))
               /\ storage' = storage]_vars

C19_Witness ==
    /\ lastOp \in {"Ba", "BBa"}
    /\ Len(notes) = 2
    /\ notes[1].title = Str(Run("B", 1))
    /\ notes[1].created = Str(toISOString(0))
    /\ notes[2] = RecordOne
    /\ JSONstringify(notes) = storage
    /\ currentId = Str(toString(0))

---------------------------------------------------------------------------
(* Timers: the debounce of autoSave and handleSearch, the interval of       *)
(* setupSync and its beforeunload listener.  SpecTimers lets the user type, *)
(* search, move between the list and the editor and leave the page while    *)
(* the browser fires the pending timers in any order.                       *)

\* most timers the browser is asked for
MaxTimers == 4

\* clearTimeout(id) / clearInterval(id): no effect for an id that is not pending
clearTimeout(tm, id) == [tm EXCEPT !.pending = {t \in @ : t.id # id}]

\* setTimeout: a pending timer with a new id; query is what the callback
\* of handleSearch has captured
setTimeout(tm, kind, query) ==
    [tm EXCEPT !.pending = @ \cup {[id |-> tm.next, kind |-> kind, query |-> query]},
               !.next = @ + 1]

\* the debounce without the clearTimeout
schedule_NoClear(tm, kind, query) ==
    LET set == setTimeout(tm, kind, query)
    IN  IF kind = "save" THEN [set EXCEPT !.saveTimeout = tm.next]
        ELSE [set EXCEPT !.searchTimeout = tm.next]

\* clearTimeout(this.saveTimeout); this.saveTimeout = setTimeout(...) of
\* autoSave, and the same on searchTimeout in handleSearch
schedule(tm, kind, query) ==
    LET old == IF kind = "save" THEN tm.saveTimeout ELSE tm.searchTimeout
        set == setTimeout(clearTimeout(tm, old), kind, query)
    IN  IF kind = "save" THEN [set EXCEPT !.saveTimeout = tm.next]
        ELSE [set EXCEPT !.searchTimeout = tm.next]

\* a beforeunload listener that leaves the interval running
beforeunload_NoClear(tm) == tm

\* the beforeunload listener of setupSync
beforeunload(tm) == IF tm.syncInterval # 0 THEN clearTimeout(tm, tm.syncInterval) ELSE tm

Pending(kind) == {t \in timers.pending : t.kind = kind}

InitTimers ==
    /\ AppAtRest
    /\ storage \in {Absent, ArrayText(<<RecordOne>>)}
    /\ notes = loadNotes(storage)
    /\ arg = <<>>
    /\ result = NotCalled

TimersNew ==
    /\ newNote
    /\ lastOp' = "newNote"
    /\ UNCHANGED <<draftId, peerNotes, timers, trace>>

TimersOpen ==
    /\ \E i \in 1..MaxNotes : openNote(i)
    /\ lastOp' = "openNote"
    /\ UNCHANGED <<draftId, peerNotes, timers, trace>>

TimersBack ==
    /\ view = "editor"
    /\ showList
    /\ lastOp' = "showList"
    /\ UNCHANGED <<draftId, peerNotes, timers, trace>>

\* an input event of the editor: handleInput, whose autoSave restarts the timer
TimersType ==
    /\ timers.next <= MaxTimers
    /\ \/ \E text \in TitleInputs : handleInput("title", text)
       \/ \E text \in ContentInputs : handleInput("content", text)
    /\ timers' = schedule(timers, "save", <<>>)
    /\ trace' = [trace EXCEPT !.lastInput =
                    [id |-> currentId, title |-> titleField', content |-> contentField']]
    /\ lastOp' = "handleInput"
    /\ UNCHANGED <<draftId, peerNotes>>

\* an input event of the search field: handleSearch(query)
TimersSearch ==
    /\ view = "list"
    /\ timers.next <= MaxTimers
    /\ \E query \in {Run("a", 1), Run("x", 1)} :
        /\ timers' = schedule(timers, "search", query)
        /\ trace' = [trace EXCEPT !.lastQuery = query]
    /\ lastOp' = "handleSearch"
    /\ UNCHANGED <<notes, storage, currentId, titleField, contentField, saveTimeout,
                   selectionMode, selectedNotes, view, clock, notifications,
                   calls, writer, arg, result, draftId, peerNotes>>

\* the callback of the save timer
FireSave ==
    /\ \E t \in Pending("save") : timers' = clearTimeout(timers, t.id)
    /\ autoSaveFire(NoFault)
    /\ lastOp' = "autoSave"
    /\ UNCHANGED <<draftId, peerNotes, trace>>

\* the callback of the search timer: this.search(query)
FireSearch ==
    /\ \E t \in Pending("search") :
        /\ timers' = clearTimeout(timers, t.id)
        /\ arg' = t.query
        /\ result' = Returned(<<searchResult(notes, t.query)>>, {})
    /\ lastOp' = "search"
    /\ UNCHANGED <<notes, storage, currentId, titleField, contentField, saveTimeout,
                   selectionMode, selectedNotes, view, clock, notifications,
                   calls, writer, draftId, peerNotes, trace>>

\* the callback of the interval: it stays pending
IntervalSync ==
    /\ Pending("sync") # {}
    /\ syncFromStorage
    /\ lastOp' = "interval"
    /\ UNCHANGED <<draftId, peerNotes, timers, trace>>

\* the page's beforeunload event
Unload ==
    /\ timers' = beforeunload(timers)
    /\ trace' = [trace EXCEPT !.unloaded = TRUE]
    /\ lastOp' = "beforeunload"
    /\ UNCHANGED <<notes, storage, currentId, titleField, contentField, saveTimeout,
                   selectionMode, selectedNotes, view, clock, notifications,
                   calls, writer, arg, result, draftId, peerNotes>>

NextTimers ==
    \/ TimersNew
    \/ TimersOpen
    \/ TimersBack
    \/ TimersType
    \/ TimersSearch
    \/ FireSave
    \/ FireSearch
    \/ IntervalSync
    \/ Unload

SpecTimers == InitTimers /\ [][NextTimers]_vars

\* C21: until beforeunload there is exactly one interval timer, the one
\* setupSync started; from beforeunload on there is none, and no step after
\* it is a reconciliation run by the interval.
C21_IntervalCancelled ==
    /\ [](IF trace.unloaded THEN Pending("sync") = {}
          ELSE Pending("sync") = {[id |-> timers.syncInterval, kind |-> "sync", query |-> <<>>]})
    /\ [][trace.unloaded => lastOp' # "interval"]_vars

C21_Witness ==
    /\ trace.unloaded
    /\ lastOp = "autoSave"
    /\ Pending("sync") = {}
    /\ Len(notes) = 2

PendingIn(tm, kind) == {t \in tm.pending : t.kind = kind}

\* C22: at most one save timer and at most one search timer are pending,
\* each the one its field names, the search timer holding the query of the
\* last input event; an input event leaves exactly the timer it has just
\* set, so that the timers of the earlier events of a burst never fire; the
\* save timer's callback saves the fields as they are when it runs and the
\* search timer's callback searches for the last query, and neither leaves
\* a timer of its kind behind.
C22_Debounce ==
    /\ [](/\ Cardinality(Pending("save")) <= 1
          /\ Cardinality(Pending("search")) <= 1
          /\ \A t \in Pending("save") : t.id = timers.saveTimeout
          /\ \A t \in Pending("search") :
                t.id = timers.searchTimeout /\ t.query = trace.lastQuery)
    /\ [][/\ lastOp' = "handleInput"
             => PendingIn(timers', "save") = {[id |-> timers.next, kind |-> "save", query |-> <<>>]}
          /\ lastOp' = "handleSearch"
             => PendingIn(timers', "search") =
                    {[id |-> timers.next, kind |-> "search", query |-> trace'.lastQuery]}
          /\ lastOp' = "autoSave"
             => /\ PendingIn(timers', "save") = {}
                /\ (currentId # Null /\ ~BlankEditor)
                     => LET i == findIndex(notes', currentId)
                        IN  /\ i > 0
                            /\ notes'[i].content = Str(trim(contentField))
                            /\ trim(titleField) # <<>> => notes'[i].title = Str(trim(titleField))
          /\ lastOp' = "search"
             => /\ PendingIn(timers', "search") = {}
                /\ result'.value = <<searchResult(notes, trace.lastQuery)>>]_vars

C22_Witness ==
    /\ lastOp = "autoSave"
    /\ timers.saveTimeout = 3
    /\ timers.searchTimeout = 0
    /\ Pending("save") = {}
    /\ currentId = Str(toString(0))
    /\ notes = <<Object(Str(Run("A", 1)), Str(Run("x", 1)), currentId, DateOf(0), DateOf(0)),
                 RecordOne>>
    /\ storage = JSONstringify(notes)

\* SpecTimers with a browser that fires a timer that stays pending
SpecTimersLive == SpecTimers /\ WF_vars(FireSave) /\ WF_vars(FireSearch)

\* the last input event left a title or a content that is not blank
Typed ==
    /\ trace.lastInput.id # Null
    /\ trim(trace.lastInput.title) # <<>> \/ trim(trace.lastInput.content) # <<>>

\* the key holds a record with the id, title and content of the last input
PersistedInput ==
    /\ storage.k = "array"
    /\ \E i \in DOMAIN storage.arr :
        /\ storage.arr[i].id = trace.lastInput.id
        /\ storage.arr[i].content = Str(trim(trace.lastInput.content))
        /\ storage.arr[i].title = Str(IF trim(trace.lastInput.title) = <<>> THEN Untitled
                                      ELSE trim(trace.lastInput.title))

\* C23: once an input event has left non-blank text in the editor of a
\* note, the key eventually holds the text of the last input event under
\* the note's id (unless the user has blanked both fields again), whatever
\* the user does next.
C23_TypedIsSaved == Typed ~> (PersistedInput \/ ~Typed)

---------------------------------------------------------------------------
(* SpecImport: importNotes for one file (arg), under every storage          *)
(* behaviour                                                                *)

\* files: a text that does not parse, a JSON value without a notes array,
\* and backups with valid and malformed entries
ImportSamples ==
    {[k |-> "garbage", arr |-> <<>>], [k |-> "nonotes", arr |-> <<>>]}
    \cup {[k |-> "backup", arr |-> a] : a \in SeqsUpTo(StoredElements, MaxStored)}

InitImport ==
    /\ AppAtRest
    /\ notes \in SeqsUpTo({RecordOne, SavedRecord}, MaxNotes)
    /\ storage \in {JSONstringify(notes), Garbage}
    /\ arg \in ImportSamples
    /\ result = NotCalled

ImportFile ==
    /\ lastOp = "init"
    /\ \E f \in Faults : importNotes(arg, f)
    /\ lastOp' = "importNotes"
    /\ UNCHANGED <<draftId, peerNotes, timers, trace>>

NextImport == ImportFile

SpecImport == InitImport /\ [][NextImport]_vars

\* C24: the import of a file with a notes array leaves the collection as it
\* was, followed by exactly the entries of the array that pass validateNote,
\* in the order of the file, whether or not their ids are in the collection;
\* the notification gives their number, and the key holds the new
\* collection unless the save-failed notification is shown.
C24_ImportAppends ==
    [][(lastOp' = "importNotes" /\ arg.k = "backup")
        => /\ Len(notes') >= Len(notes)
           /\ SubSeq(notes', 1, Len(notes)) = notes
           /\ KeepsExactlyValid(SubSeq(notes', Len(notes) + 1, Len(notes')), arg.arr)
           /\ ImportedMsg(Len(notes') - Len(notes)) \in notifications'
           /\ SaveFailedMsg \notin notifications' => storage' = JSONstringify(notes')]_vars

C24_Witness ==
    /\ lastOp = "importNotes"
    /\ arg = [k |-> "backup", arr |-> <<Malformed, RecordOne>>]
    /\ notes = <<RecordOne, RecordOne>>
    /\ ImportedMsg(1) \in notifications
    /\ storage = JSONstringify(notes)

\* C25: the import of a file that does not parse, or that has no notes
\* array, shows the invalid-format notification and changes neither the
\* collection nor the key.
C25_BadImportRejected ==
    [][(lastOp' = "importNotes" /\ arg.k # "backup")
        => /\ ImportFormatMsg \in notifications'
           /\ notes' = notes
           /\ storage' = storage
           /\ writer' = writer]_vars

C25_Witness ==
    /\ lastOp = "importNotes"
    /\ arg.k = "nonotes"
    /\ ImportFormatMsg \in notifications
    /\ notes = <<SavedRecord, RecordOne>>
    /\ storage = JSONstringify(notes)

---------------------------------------------------------------------------
(* Claims about loadNotes on malformed texts (SpecLoad) *)

\* C26: for a text of the key that does not parse, and for one that parses
\* to something that is no array, loadNotes returns the empty collection and
\* shows the load-failed notification.
C26_CorruptionNotified ==
    (result.done /\ storage.k \in {"garbage", "nonarray"})
        => (result.value = <<>> /\ LoadFailedMsg \in result.shown)


---------------------------------------------------------------------------
(* Who writes the key: SpecFrame runs every handler of the application,    *)
(* another writer included, and records in lastOp which one ran.           *)

\* NoteApp.search(query): filters and renders, result holds what it renders
search(query) ==
    /\ arg' = query
    /\ result' = Returned(<<searchResult(notes, query)>>, {})
    /\ NoStore({})
    /\ UNCHANGED <<notes, currentId, titleField, contentField, saveTimeout,
                   selectionMode, selectedNotes, view, clock, calls>>

\* NoteApp.clearSearch: empties the field and calls search('')
clearSearch == search(<<>>)

ExportedMsg(n) == "Exported " \o ToString(n) \o " notes as text!"

\* an export handler: it reads, shows one notification and touches nothing else
Export(shown) ==
    /\ NoStore(shown)
    /\ UNCHANGED <<notes, currentId, titleField, contentField, saveTimeout,
                   selectionMode, selectedNotes, view, clock, calls, arg, result>>

\* NoteApp.exportCurrentNote; ok is whether Blob and the download went through
exportCurrentNote(ok) ==
    IF currentId = Null THEN Export({})
    ELSE IF ok THEN Export({"Note exported as text!"})
    ELSE Export({"Failed to export note. Please try again."})

\* NoteApp.exportAllNotesJSON
exportAllNotesJSON(ok) ==
    IF ok THEN Export({"Backup created successfully!"}) ELSE Export({"Failed to create backup. Please try again."})

\* NoteApp.exportAllNotesTXT
exportAllNotesTXT(ok) ==
    IF notes = <<>> THEN Export({"No notes to export!"})
    ELSE IF ok THEN Export({ExportedMsg(Len(notes))})
    ELSE Export({"Failed to export notes. Please try again."})

InitFrame ==
    /\ AppAtRest
    /\ storage \in {Absent, ArrayText(<<RecordOne>>)}
    /\ notes = loadNotes(storage)
    /\ arg = <<>>
    /\ result = NotCalled

\* one handler and its name
Ran(name) ==
    /\ lastOp' = name
    /\ UNCHANGED <<draftId, peerNotes, timers, trace>>

FrameNew == newNote /\ Ran("newNote")

FrameOpen == (\E i \in 1..MaxNotes : openNote(i)) /\ Ran("openNote")

FrameBack == view = "editor" /\ showList /\ Ran("showList")

FrameType ==
    /\ \/ handleInput("title", Run("A", 1))
       \/ handleInput("content", Run("x", 1))
    /\ Ran("handleInput")

FrameSearch == view = "list" /\ search(Run("a", 1)) /\ Ran("search")

FrameClearSearch == view = "list" /\ clearSearch /\ Ran("clearSearch")

FrameSelect ==
    /\ \/ toggleSelectionMode
       \/ exitSelectionMode
       \/ selectAll
       \/ deselectAll
       \/ \E i \in 1..MaxNotes : toggleNoteSelection(i)
    /\ Ran("selection")

FrameExport ==
    /\ \E ok \in BOOLEAN :
        \/ view = "editor" /\ exportCurrentNote(ok)
        \/ view = "list" /\ exportAllNotesJSON(ok)
        \/ view = "list" /\ exportAllNotesTXT(ok)
    /\ Ran("export")

FrameReconcile == syncFromStorage /\ Ran("syncFromStorage")

FrameSave ==
    /\ view = "editor"
    /\ (saveNote(NoFault) \/ autoSaveFire(NoFault))
    /\ Ran("saveNote")

FrameDelete == view = "editor" /\ confirmDelete(NoFault) /\ Ran("confirmDelete")

FrameBulkDelete == bulkDelete(NoFault) /\ Ran("bulkDelete")

FrameImport ==
    /\ view = "list"
    /\ \E file \in ImportFiles : importNotes(file, NoFault)
    /\ Ran("importNotes")

FrameForeign == otherWriter(Garbage) /\ Ran("other")

NextFrame ==
    \/ FrameNew
    \/ FrameOpen
    \/ FrameBack
    \/ FrameType
    \/ FrameSearch
    \/ FrameClearSearch
    \/ FrameSelect
    \/ FrameExport
    \/ FrameReconcile
    \/ FrameSave
    \/ FrameDelete
    \/ FrameBulkDelete
    \/ FrameImport
    \/ FrameForeign

SpecFrame == InitFrame /\ [][NextFrame]_vars

Mutations == {"saveNote", "confirmDelete", "bulkDelete", "importNotes"}

\* C27: a step of this application that changes the value of the key is a
\* save with a non-blank editor, a single delete, a bulk delete or an import;
\* new-note, opening a note, going back, typing, search, clear-search,
\* selection changes, exports and reconciliation leave the value as it was.
C27_OnlyMutationsWrite ==
    [][(storage' # storage /\ lastOp' # "other")
          => /\ lastOp' \in Mutations
             /\ lastOp' = "saveNote" => ~BlankEditor]_vars

\* a reconciliation has just replaced the collection by what another writer
\* stored, and the text under the key is still the other writer's
C27_Witness ==
    /\ lastOp = "syncFromStorage"
    /\ writer = "other"
    /\ storage = Garbage
    /\ notes = <<>>
    /\ LoadFailedMsg \in notifications


---------------------------------------------------------------------------
(* The localStorage calls of one store() *)

\* the positions of the calls of one kind in the calls store() made
CallsOf(kind) == {i \in DOMAIN calls : calls[i] = kind}

\* C28: whatever the storage does, one store() ends after at most two
\* setItem on the key and four localStorage calls in all; it starts with a
\* setItem, and a second setItem is the last call and comes right after the
\* one removeItem.
C28_AtMostTwoWrites ==
    lastOp # "init" =>
        /\ Len(calls) <= 4
        /\ Cardinality(CallsOf("setItem")) \in {1, 2}
        /\ Cardinality(CallsOf("removeItem")) <= 1
        /\ calls[1] = "setItem"
        /\ \A i \in CallsOf("setItem") :
              i > 1 => (i = Len(calls) /\ calls[i - 1] = "removeItem")

\* the verification failed, the key was removed and the rewrite threw: store()
\* ended after its second attempt with the critical notification
C28_Witness ==
    /\ lastOp = "store"
    /\ arg = [w1 |-> "drop", rm |-> "ok", w2 |-> "throw"]
    /\ calls = <<"setItem", "getItem", "removeItem", "setItem">>
    /\ notifications = {SaveFailedMsg, CriticalMsg}
    /\ storage = Absent


---------------------------------------------------------------------------
(* Convergence of the tabs: SpecConverge is SpecTabs with reconciliations  *)
(* that can always be triggered; lastOp is the history of the writes only, *)
(* so that after MaxSteps writes nothing is persisted any more.            *)

\* the interval, window focus or the storage event in this tab
ThisTriggered ==
    /\ syncFromStorage
    /\ UNCHANGED <<lastOp, draftId, peerNotes, timers, trace>>

\* the same in the second tab
PeerTriggered ==
    /\ peerNotes' = synced(peerNotes, storage)
    /\ UNCHANGED <<notes, storage, writer, currentId, titleField, contentField,
                   saveTimeout, selectionMode, selectedNotes, view, clock,
                   notifications, calls, arg, result, lastOp, draftId, timers, trace>>

NextConverge ==
    \/ TabsTick
    \/ ThisPersists
    \/ PeerPersists
    \/ ForeignWrite
    \/ ThisTriggered
    \/ PeerTriggered

\* the interval of setupSync keeps firing in every tab
SpecConverge ==
    /\ InitTabs
    /\ [][NextConverge]_vars
    /\ WF_vars(ThisTriggered)
    /\ WF_vars(PeerTriggered)

\* both tabs hold the collection loaded from the key, as serialized
Converged ==
    /\ JSONstringify(notes) = JSONstringify(loadNotes(storage))
    /\ JSONstringify(peerNotes) = JSONstringify(loadNotes(storage))

\* a step in which no writer persists: the key keeps its value and no tab
\* ran a save or a delete
Quiet == storage' = storage /\ lastOp' = lastOp

\* C29: if from some point on nothing is persisted while the reconciliation
\* of every tab keeps being triggered, then from some point on every tab's
\* collection is, as serialized, the collection loaded from the key.
C29_Convergence == (<>[][Quiet]_vars) => <>[]Converged

\* both tabs have persisted, this tab last, and both have reconciled since
C29_Witness ==
    /\ lastOp = "BA"
    /\ Converged
    /\ storage.k = "array"
    /\ Len(notes) = 2
    /\ notes # peerNotes


---------------------------------------------------------------------------
(* SpecSettle: one tab, no other writer.  One mutation under every storage *)
(* behaviour, then the reconciliation that follows it.                     *)

SettleCollections == SeqsUpTo({RecordOne, SavedRecord, ReloadedRecord}, MaxNotes)

InitSettle ==
    /\ notes \in SettleCollections
    /\ storage \in {JSONstringify(notes), Absent}
    /\ writer = IF storage.k = "array" THEN "app" ELSE "other"
    /\ clock = 0
    /\ saveTimeout = FALSE
    /\ notifications = {}
    /\ calls = <<>>
    /\ lastOp = "init"
    /\ arg = NoFault
    /\ result = NotCalled
    /\ draftId = Null
    /\ timers = TimersAtStart
    /\ trace = NoTrace
    /\ peerNotes = <<>>
    /\ \/ /\ view = "editor"
          /\ currentId \in {Str(toString(0)), Str(toString(1))}
          /\ titleField \in {<<>>, Run("A", 1)}
          /\ contentField \in {<<>>, Run("y", 1)}
          /\ selectionMode = FALSE
          /\ selectedNotes = {}
       \/ /\ view = "list"
          /\ currentId = Null
          /\ titleField = <<>>
          /\ contentField = <<>>
          /\ selectionMode = TRUE
          /\ selectedNotes \in SUBSET {ToText(Str(toString(0))), ToText(Str(toString(1)))}

\* how the handler `name` ended: without reaching store(), with store()
\* showing the critical notification, or with store() returning without it
Outcome(name, reached) ==
    /\ lastOp' = IF ~reached THEN name \o ": no store"
                 ELSE IF CriticalMsg \in notifications' THEN name \o ": store failed"
                 ELSE name
    /\ UNCHANGED <<draftId, peerNotes, timers, trace>>

SettleSave ==
    /\ lastOp = "init"
    /\ view = "editor"
    /\ \E f \in Faults : saveNote(f)
    /\ Outcome("saveNote", ~BlankEditor /\ InvalidMsg \notin notifications')

SettleDelete ==
    /\ lastOp = "init"
    /\ view = "editor"
    /\ \E f \in Faults : confirmDelete(f)
    /\ Outcome("confirmDelete", TRUE)

SettleBulkDelete ==
    /\ lastOp = "init"
    /\ \E f \in Faults : bulkDelete(f)
    /\ Outcome("bulkDelete", selectedNotes # {})

SettleImport ==
    /\ lastOp = "init"
    /\ view = "list"
    /\ \E file \in ImportFiles :
        /\ \E f \in Faults : importNotes(file, f)
        /\ Outcome("importNotes", file.k = "backup")

\* the reconciliation that follows the mutation
SettleReconcile ==
    /\ lastOp \notin {"init", "syncFromStorage"}
    /\ syncFromStorage
    /\ lastOp' = "syncFromStorage"
    /\ UNCHANGED <<draftId, peerNotes, timers, trace>>

NextSettle ==
    \/ SettleSave
    \/ SettleDelete
    \/ SettleBulkDelete
    \/ SettleImport
    \/ SettleReconcile

SpecSettle == InitSettle /\ [][NextSettle]_vars

\* C30: after a save, delete, bulk delete or import whose store() returned
\* without the critical notification, the key holds the serialization of the
\* in-memory collection, and the reconciliation that follows leaves the
\* collection as it is.
C30_StoredAfterMutation ==
    /\ [](lastOp \in Mutations => storage = JSONstringify(notes))
    /\ [][(lastOp \in Mutations /\ lastOp' = "syncFromStorage") => notes' = notes]_vars


---------------------------------------------------------------------------
(* What a reconciliation leaves of a collection that could not be stored *)

\* the handlers whose store() ended with the critical notification
FailedMutations == {m \o ": store failed" : m \in Mutations}

\* every record of `before` is in `after`, as serialized
KeepsRecords(before, after) ==
    \A i \in DOMAIN before : \E j \in DOMAIN after : toJSON(after[j]) = toJSON(before[i])

\* C31: the reconciliation that follows a store() which ended in terminal
\* failure leaves in the collection every record that was in it.
C31_UnsavedKept ==
    [][(lastOp \in FailedMutations /\ lastOp' = "syncFromStorage")
          => KeepsRecords(notes, notes')]_vars


---------------------------------------------------------------------------
(* SpecRevive: this tab has opened a note; a second tab deletes it; this   *)
(* tab reconciles, types, saves by key or by timer, or goes back.  draftId *)
(* is the id the second tab deleted.                                       *)

InitRevive ==
    /\ AppAtRest
    /\ storage \in {ArrayText(<<RecordOne>>), ArrayText(<<RecordTwo, RecordOne>>)}
    /\ notes = loadNotes(storage)
    /\ arg = NoFault
    /\ result = NotCalled

\* peerNotes is <<>> until the second tab is opened on the same key
ReviveOpenPeer ==
    /\ lastOp = "init"
    /\ peerNotes' = loadNotes(storage)
    /\ lastOp' = "peer loads"
    /\ UNCHANGED <<notes, storage, writer, currentId, titleField, contentField,
                   saveTimeout, selectionMode, selectedNotes, view, clock,
                   notifications, calls, arg, result, draftId, timers, trace>>

ReviveOpen ==
    /\ \E i \in 1..MaxNotes : openNote(i)
    /\ Ran("openNote")

ReviveType ==
    /\ \/ handleInput("title", Run("A", 1))
       \/ handleInput("content", Run("x", 1))
    /\ Ran("handleInput")

ReviveBack == view = "editor" /\ showList /\ Ran("showList")

\* confirmDelete in the second tab, on a note it holds
RevivePeerDeletes ==
    /\ draftId = Null
    /\ \E i \in DOMAIN peerNotes :
        /\ PeerDeletes(peerNotes[i].id)
        /\ draftId' = peerNotes[i].id
    /\ writer' = "other"
    /\ lastOp' = "peer deletes"
    /\ UNCHANGED <<notes, currentId, titleField, contentField, saveTimeout,
                   selectionMode, selectedNotes, view, clock, notifications,
                   calls, arg, result, timers, trace>>

ReviveReconcile == syncFromStorage /\ Ran("syncFromStorage")

ReviveSaveByKey == view = "editor" /\ saveNote(NoFault) /\ Ran("saveNote")

ReviveSaveByTimer == autoSaveFire(NoFault) /\ Ran("autoSave")

NextRevive ==
    \/ ReviveOpenPeer
    \/ ReviveOpen
    \/ ReviveType
    \/ ReviveBack
    \/ RevivePeerDeletes
    \/ ReviveReconcile
    \/ ReviveSaveByKey
    \/ ReviveSaveByTimer

SpecRevive == InitRevive /\ [][NextRevive]_vars

\* the record the second tab deleted is neither in this tab's collection nor
\* under the key
Gone(ns, raw) == draftId # Null /\ ~HasId(ns, draftId) /\ ~StoredHasId(raw, draftId)

\* C32: once the record a second tab deleted has left this tab's collection,
\* no step of this tab puts a record with its id back into the collection or
\* under the key.
C32_DeletedStaysDeleted ==
    [][Gone(notes, storage) => Gone(notes', storage')]_vars


---------------------------------------------------------------------------
(* SpecEditor: the editor of one tab under every interleaving of input,    *)
(* back, open, new note, reconciliation, Ctrl+S and the auto-save timer,   *)
(* started from the list or from a share target.  trace.lastInput is what  *)
(* the editor was last asked to show, or what was last typed, and the      *)
(* current id at that moment.                                              *)

\* showEditor(note) was called, or the user typed, while the current id was id
Shown(id, title, content) ==
    trace' = [trace EXCEPT !.lastInput = [id |-> id, title |-> title, content |-> content]]

InitEditor ==
    /\ storage \in {Absent, ArrayText(<<RecordOne>>), ArrayText(<<RecordTwo, RecordOne>>)}
    /\ writer = "other"
    /\ notes = loadNotes(storage)
    /\ clock = 0
    /\ saveTimeout = FALSE
    /\ selectionMode = FALSE
    /\ selectedNotes = {}
    /\ notifications = {}
    /\ calls = <<>>
    /\ lastOp = "init"
    /\ arg = NoFault
    /\ result = NotCalled
    /\ draftId = Null
    /\ timers = TimersAtStart
    /\ peerNotes = <<>>
    /\ \/ /\ currentId = Null
          /\ view = "list"
          /\ titleField = <<>>
          /\ contentField = <<>>
          /\ trace = NoTrace
       \/ /\ currentId = Str(toString(clock))
          /\ view = "editor"
          /\ titleField = SharedNote
          /\ contentField = join(<<<<>>, Run("s", 1), <<>>>>)
          /\ trace = [NoTrace EXCEPT !.lastInput =
                        [id |-> currentId, title |-> SharedNote, content |-> Run("s", 1)]]

EditorNew ==
    /\ newNote
    /\ Shown(Str(toString(clock)), <<>>, <<>>)
    /\ lastOp' = "newNote"
    /\ UNCHANGED <<draftId, peerNotes, timers>>

EditorOpen ==
    /\ \E i \in 1..MaxNotes :
        /\ openNote(i)
        /\ LET note == notes[findIndex(notes, notes[i].id)]
           IN  Shown(note.id, OrEmpty(note.title), OrEmpty(note.content))
    /\ lastOp' = "openNote"
    /\ UNCHANGED <<draftId, peerNotes, timers>>

EditorBack == view = "editor" /\ showList /\ Ran("showList")

EditorType ==
    /\ \/ handleInput("title", Run("B", 1))
       \/ \E text \in {<<>>, Run("y", 1)} : handleInput("content", text)
    /\ Shown(currentId, titleField', contentField')
    /\ lastOp' = "handleInput"
    /\ UNCHANGED <<draftId, peerNotes, timers>>

EditorSaveByKey == view = "editor" /\ saveNote(NoFault) /\ Ran("saveNote")

EditorSaveByTimer == autoSaveFire(NoFault) /\ Ran("autoSave")

EditorReconcile == syncFromStorage /\ Ran("syncFromStorage")

EditorForeign == otherWriter(ArrayText(<<RecordOne>>)) /\ Ran("other")

NextEditor ==
    \/ EditorNew
    \/ EditorOpen
    \/ EditorBack
    \/ EditorType
    \/ EditorSaveByKey
    \/ EditorSaveByTimer
    \/ EditorReconcile
    \/ EditorForeign

SpecEditor == InitEditor /\ [][NextEditor]_vars

\* C33: whenever a save writes a record, the editor was last filled or typed
\* in while the current id was the id it writes, and the record holds the
\* trimmed title (or 'untitled') and content of that moment.
C33_SavedUnderOwnId ==
    [][SaveWentThrough
        => LET k == findIndex(notes', currentId)
               title == trim(trace.lastInput.title)
           IN  /\ k > 0
               /\ trace.lastInput.id = currentId
               /\ notes'[k].title = Str(IF title = <<>> THEN Untitled ELSE title)
               /\ notes'[k].content = Str(trim(trace.lastInput.content))
               /\ StoredHasId(storage', currentId)]_vars

\* the timer started in a draft has fired in the editor of another note, which
\* was opened in between, and saved that note's own text
C33_Witness ==
    /\ lastOp = "autoSave"
    /\ currentId = Str(Run("1", 1))
    /\ trace.lastInput = [id |-> currentId, title |-> Run("A", 1), content |-> Run("x", 1)]
    /\ Len(notes) = 2
    /\ notes[2].id = currentId
    /\ notes[2].updated = DateOf(0)
    /\ notes[2].title = Str(Run("A", 1))
    /\ notes[1].id = Str(Run("2", 1))
    /\ storage = JSONstringify(notes)


---------------------------------------------------------------------------
(* The bulk selection and the collection *)

\* C34: every id of the selection is the id of a record of the collection,
\* and a bulk delete removes as many records as the count it reports.
C34_SelectionWithinNotes ==
    /\ [](\A id \in selectedNotes : HasId(notes, id))
    /\ [][(lastOp' = "bulkDelete" /\ selectedNotes # {})
            => Len(notes) - Len(notes') = Cardinality(selectedNotes)]_vars


---------------------------------------------------------------------------
(* SpecFind: search on the collections that load, import, save and         *)
(* reconciliation produce from texts holding records without a title or    *)
(* without a content                                                       *)

\* texts under the key whose records all pass validateNote
FindTexts ==
    {Absent, ArrayText(<<RecordOne>>), ArrayText(<<NoTitleRecord>>),
     ArrayText(<<RecordOne, NoContentRecord>>)}

FindFiles ==
    {[k |-> "backup", arr |-> <<RecordTwo>>],
     [k |-> "backup", arr |-> <<NoContentRecord, Malformed>>]}

InitFind ==
    /\ AppAtRest
    /\ storage \in FindTexts
    /\ notes = loadNotes(storage)
    /\ arg = <<>>
    /\ result = NotCalled

FindImport ==
    /\ view = "list"
    /\ \E file \in FindFiles : importNotes(file, NoFault)
    /\ Ran("importNotes")

FindNew == view = "list" /\ newNote /\ Ran("newNote")

FindType == handleInput("content", Run("a", 1)) /\ Ran("handleInput")

FindSave == view = "editor" /\ saveNote(NoFault) /\ Ran("saveNote")

FindBack == view = "editor" /\ showList /\ Ran("showList")

FindForeign == (\E text \in FindTexts : otherWriter(text)) /\ Ran("other")

FindReconcile == syncFromStorage /\ Ran("syncFromStorage")

FindSearch ==
    /\ view = "list"
    /\ \E query \in {Run(" ", 1), Run("a", 1), Run("B", 1)} : search(query)
    /\ Ran("search")

NextFind ==
    \/ FindImport
    \/ FindNew
    \/ FindType
    \/ FindSave
    \/ FindBack
    \/ FindForeign
    \/ FindReconcile
    \/ FindSearch

SpecFind == InitFind /\ [][NextFind]_vars

\* C35: a search with a query that is not blank ends without an exception.
C35_SearchCompletes ==
    (lastOp = "search" /\ trim(arg) # <<>>) => ~result.value[1].threw

====
